---- MODULE Spec2Model ----
(***************************************************************************)
(* Chunk cache and generation coordinator of WorldManager                  *)
(* (src/DS_proj/src/engine/WorldManager.js).                               *)
(*                                                                         *)
(* JavaScript runs one job to completion, and the continuations of a       *)
(* settled promise run as microtasks before the next job.  Each action     *)
(* below is therefore one public call up to the point where it returns to  *)
(* its caller, or one answer of the task runner together with the promise  *)
(* continuations that answer wakes (the generation closure, then the       *)
(* `await` of the call that started it).                                   *)
(*                                                                         *)
(* The terrain arrays a synthesis produces are represented by the inputs   *)
(* they are computed from (numeric seed, noise configuration, chunk key);   *)
(* where a query reads tiles, the terrain also carries its grid cells.     *)
(* The queries (getChunksInRect, getTileAtWorld, checkCollision,           *)
(* getNearbyObstacles) have specifications of their own, each applying one *)
(* query to a manager drawn by its initial predicate.  The per-tile biome  *)
(* classification of _generateChunkData is checked as a function of its   *)
(* noise values under ClassifySpec.                                        *)
(***************************************************************************)
EXTENDS Integers, Sequences, FiniteSets, TLC

\* ---------------------------------------------------------------- bounds
MaxCoord == 1
MaxRadius == 1
MaxSeed == 1
MaxOctaves == 0
MaxJobs == 2
MaxJoiners == 1
MaxGen == 3
MaxReconfig == 1
\* The queries are checked on a world of small chunks: chunkSize tiles a side,
\* tileSize pixels a tile, world coordinates in -MaxWorld .. MaxWorld.
ChunkSize == 2
TileSize == 2
MaxWorld == 3
\* Collision queries: at most MaxTrees trees in the registry, query radii of
\* 0 .. MaxQueryRadius pixels.
MaxTrees == 2
MaxQueryRadius == 1
MaxRngSeed == 12
MaxRolls == 4
MaxPasses == 2
MaxWindow == 2
MaxDelta == 2
MaxNow == 2
MaxFrames == 3

Coords == 0..MaxCoord
Seeds == 0..MaxSeed
\* noiseConfig.octaves of the constructor's default configuration
DefaultOctaves == 5
Octaves == (0..MaxOctaves) \cup {DefaultOctaves}
Radii == 0..MaxRadius
JobIds == 1..MaxJobs

VARIABLES
  hasDocument,      \* typeof document !== 'undefined' in this environment
  pool,             \* this.pool is not null
  seedNum,          \* this.seedNum
  noiseConfig,      \* this.noiseConfig
  chunks,           \* this.chunks: Map key -> chunk
  collisionMap,     \* this.collisionMap: Map key -> tree list
  generationQueue,  \* this.generationQueue: Map key -> promise (job id)
  generationId,     \* this._generationId
  jobs,             \* the pool.enqueue calls the task runner has not answered yet
  reconfigs,        \* setSeed, setNoiseConfig and dispose calls so far
  lastOp,           \* the step just taken
  lastRet,          \* what that step returned to its caller
  meter             \* the PerfMeter (src/utils/perf.js), null where none is built

vars == <<hasDocument, pool, seedNum, noiseConfig, chunks, collisionMap,
          generationQueue, generationId, jobs, reconfigs, lastOp, lastRet,
          meter>>

\* ------------------------------------------------------------ data model
\* _key(cx, cy): the string `${cx},${cy}`, one per coordinate pair.
Key(cx, cy) == <<cx, cy>>

Keys == {Key(cx, 0) : cx \in Coords}

\* The key slot of a step that is about no single chunk.
NoKey == <<>>

Abs(n) == IF n < 0 THEN -n ELSE n

\* null / undefined
Null == [kind |-> "null"]

\* new Uint8Array(chunkSize * chunkSize): every tile is 0
DefaultGrid == [kind |-> "zeros"]

\* biomeData: data?.biomeData || {}
EmptyBiome == [kind |-> "empty"]

\* A synthesis whose output also depends on how many chunks the manager has
\* produced before.
GenerateChunkData_CallOrder(s, cfg, k) ==
  [kind |-> "terrain", seed |-> s, cfg |-> cfg, key |-> k,
   call |-> generationId]

\* The {tiles, biomeData} computed by _generateChunkData, and by the worker
\* from the job arguments, for chunk k under seed s and configuration cfg.
GenerateChunkData(s, cfg, k) ==
  [kind |-> "terrain", seed |-> s, cfg |-> cfg, key |-> k]

\* { ...this.noiseConfig, ...cfg }
MergeConfig(base, cfg) ==
  [f \in (DOMAIN base) \cup (DOMAIN cfg) |->
     IF f \in DOMAIN cfg THEN cfg[f] ELSE base[f]]

\* The partial configurations passed to setNoiseConfig.
PartialConfigs == {[octaves |-> o] : o \in Octaves}

\* Map.delete(key)
MapDelete(m, k) == [x \in (DOMAIN m) \ {k} |-> m[x]]

\* Map.set(key, v)
MapSet(m, k, v) == [x \in (DOMAIN m) \cup {k} |-> IF x = k THEN v ELSE m[x]]

EmptyMap == [x \in {} |-> Null]

\* _decorateChunk: the tree list of chunk k, rolled by the chunk RNG of the
\* current seed over the tiles it is given.
DecorateChunk(k, data) == [rng |-> seedNum, tiles |-> data]

\* _createCanvasForTiles(cx, cy, tiles, biomeData): null without a document;
\* otherwise synthesizes the terrain itself when given none, draws it, and
\* registers the chunk's trees in the collision map.
CreateCanvasForTiles(k, data, cmap) ==
  IF ~hasDocument
    THEN [rendered |-> Null, cmap |-> cmap, synth |-> FALSE]
    ELSE LET drawn == IF data = Null
                        THEN GenerateChunkData(seedNum, noiseConfig, k)
                        ELSE data
         IN [rendered |-> [kind |-> "canvas", drawn |-> drawn],
             cmap |-> MapSet(cmap, k, DecorateChunk(k, drawn)),
             synth |-> (data = Null)]

\* _postProcessGeneratedChunk stamping every second number twice.
PostProcessGeneratedChunk_Restamps(k, data, cmap, gid) ==
  LET r == CreateCanvasForTiles(k, data, cmap)
  IN [chunk |-> [cx |-> k[1], cy |-> k[2],
                 tiles |-> IF data = Null THEN DefaultGrid ELSE data,
                 biomeData |-> IF data = Null THEN EmptyBiome ELSE data,
                 canvas |-> r.rendered,
                 generationId |-> 2 * (gid \div 2)],
      cmap |-> r.cmap,
      synth |-> r.synth]

\* _postProcessGeneratedChunk(cx, cy, data): the chunk object, the collision
\* map after the call, and whether the call ran a synthesis.
PostProcessGeneratedChunk(k, data, cmap, gid) ==
  LET r == CreateCanvasForTiles(k, data, cmap)
  IN [chunk |-> [cx |-> k[1], cy |-> k[2],
                 tiles |-> IF data = Null THEN DefaultGrid ELSE data,
                 biomeData |-> IF data = Null THEN EmptyBiome ELSE data,
                 canvas |-> r.rendered,
                 generationId |-> gid],
      cmap |-> r.cmap,
      synth |-> r.synth]

\* `if (chunk.canvas)`: the test getChunk and _generateChunkAsync use.
HasCanvas(c) == c.canvas # Null

\* The chunk carries synthesized terrain rather than the placeholder's grid.
HasTerrain(c) == c.tiles # DefaultGrid

\* ------------------------------------------------------- promises and jobs
\* How a promise stands for one of its consumers.
Resolved(c) == [st |-> "resolved", generationId |-> c.generationId]
Rejected == [st |-> "rejected", generationId |-> -1]

\* One pool.enqueue(args) awaiting its answer, and the generationPromise
\* built on it: the args captured at dispatch, and how many later generateAsync
\* callers were handed the same promise (getChunk discards the promise of the
\* call it makes, so that call has no one to hand a result to).
NewJob(k) ==
  [key |-> k, seed |-> seedNum, cfg |-> noiseConfig, joiners |-> 0]

PendingJobs == DOMAIN jobs

\* The identity of the next promise: the least job id not in use.
FreshJob == CHOOSE j \in JobIds \ PendingJobs :
              \A i \in JobIds \ PendingJobs : j <= i

\* What an answered job hands to the call that started it and to the callers
\* that joined its promise.
Settled(j, starterOut, joinerOut) ==
  [kind |-> "settled", key |-> jobs[j].key, job |-> j,
   seed |-> jobs[j].seed, cfg |-> jobs[j].cfg,
   joiners |-> jobs[j].joiners, starterOut |-> starterOut,
   joinerOut |-> joinerOut]

\* Jobs for key k the task runner has not answered yet.
OutstandingFor(k) == {j \in PendingJobs : jobs[j].key = k}

\* Chunk objects still to be created by the answers of the pending jobs.
Reserved == Cardinality(PendingJobs)

\* ------------------------------------------------- _generateChunkAsync
\* The chunk objects and jobs a call of _generateChunkAsync(k) creates, given
\* the chunk table ch it finds.
AsyncJoins(k) == k \in DOMAIN generationQueue
AsyncExisting(k, ch) == ~AsyncJoins(k) /\ k \in DOMAIN ch /\ HasCanvas(ch[k])
AsyncDispatches(k, ch) == ~AsyncJoins(k) /\ ~AsyncExisting(k, ch) /\ pool
AsyncFallsBack(k, ch) == ~AsyncJoins(k) /\ ~AsyncExisting(k, ch) /\ ~pool

\* The bounds of the model leave room for the call.
AsyncInBounds(k, ch, gid, who) ==
  /\ AsyncJoins(k) /\ who = "direct" =>
       jobs[generationQueue[k]].joiners < MaxJoiners
  /\ AsyncDispatches(k, ch) => PendingJobs # JobIds /\ gid + Reserved < MaxGen
  /\ AsyncFallsBack(k, ch) => gid + Reserved < MaxGen

\* _generateChunkAsync without its `generationQueue.has(key)` test: a call for
\* a key already in flight goes on to the later branches.
GenerateChunkAsync_NoJoin(k, ch, cm, gid, who) ==
  IF k \in DOMAIN ch /\ HasCanvas(ch[k]) THEN
    [chunks |-> ch, cmap |-> cm, gid |-> gid, queue |-> generationQueue,
     jobs |-> jobs, ret |-> [kind |-> "resolved", chunk |-> ch[k]],
     synth |-> FALSE, dispatched |-> FALSE]
  ELSE IF pool /\ PendingJobs # JobIds THEN
    [chunks |-> ch, cmap |-> cm, gid |-> gid,
     queue |-> MapSet(generationQueue, k, FreshJob),
     jobs |-> MapSet(jobs, FreshJob, NewJob(k)),
     ret |-> [kind |-> "promise", job |-> FreshJob],
     synth |-> FALSE, dispatched |-> TRUE]
  ELSE IF AsyncJoins(k) THEN
    [chunks |-> ch, cmap |-> cm, gid |-> gid, queue |-> generationQueue,
     jobs |-> jobs, ret |-> [kind |-> "promise", job |-> generationQueue[k]],
     synth |-> FALSE, dispatched |-> FALSE]
  ELSE
    LET data == GenerateChunkData(seedNum, noiseConfig, k)
        p == PostProcessGeneratedChunk(k, data, cm, gid)
    IN [chunks |-> MapSet(ch, k, p.chunk), cmap |-> p.cmap, gid |-> gid + 1,
        queue |-> generationQueue, jobs |-> jobs,
        ret |-> [kind |-> "resolved", chunk |-> p.chunk],
        synth |-> TRUE, dispatched |-> FALSE]

\* _generateChunkAsync(cx, cy) up to its first suspension, started on chunk
\* table ch, collision map cm and sequence number gid by `who`.
GenerateChunkAsync(k, ch, cm, gid, who) ==
  IF AsyncJoins(k) THEN
    LET j == generationQueue[k]
    IN [chunks |-> ch, cmap |-> cm, gid |-> gid,
        queue |-> generationQueue,
        jobs |-> IF who = "direct"
                   THEN [jobs EXCEPT ![j].joiners = @ + 1]
                   ELSE jobs,
        ret |-> [kind |-> "promise", job |-> j],
        synth |-> FALSE, dispatched |-> FALSE]
  ELSE IF AsyncExisting(k, ch) THEN
    [chunks |-> ch, cmap |-> cm, gid |-> gid, queue |-> generationQueue,
     jobs |-> jobs, ret |-> [kind |-> "resolved", chunk |-> ch[k]],
     synth |-> FALSE, dispatched |-> FALSE]
  ELSE IF pool THEN
    [chunks |-> ch, cmap |-> cm, gid |-> gid,
     queue |-> MapSet(generationQueue, k, FreshJob),
     jobs |-> MapSet(jobs, FreshJob, NewJob(k)),
     ret |-> [kind |-> "promise", job |-> FreshJob],
     synth |-> FALSE, dispatched |-> TRUE]
  ELSE
    LET data == GenerateChunkData(seedNum, noiseConfig, k)
        p == PostProcessGeneratedChunk(k, data, cm, gid)
    IN [chunks |-> MapSet(ch, k, p.chunk), cmap |-> p.cmap, gid |-> gid + 1,
        queue |-> generationQueue, jobs |-> jobs,
        ret |-> [kind |-> "resolved", chunk |-> p.chunk],
        synth |-> TRUE, dispatched |-> FALSE]

\* ------------------------------------------------------------------ Init
Init ==
  /\ meter = Null
  /\ hasDocument \in BOOLEAN
  /\ pool \in BOOLEAN
  /\ seedNum = 0
  /\ noiseConfig = [octaves |-> DefaultOctaves]
  /\ chunks = EmptyMap
  /\ collisionMap = EmptyMap
  /\ generationQueue = EmptyMap
  /\ generationId = 0
  /\ jobs = EmptyMap
  /\ reconfigs = 0
  /\ lastOp = [op |-> "construct", key |-> NoKey, synth |-> FALSE, dispatched |-> FALSE]
  /\ lastRet = Null

Op(name, k, synth, dispatched) ==
  [op |-> name, key |-> k, synth |-> synth, dispatched |-> dispatched]

\* A setSeed or setNoiseConfig step, with what the two tables held before it.
Reconfigured(name) ==
  [op |-> name, key |-> NoKey, synth |-> FALSE, dispatched |-> FALSE,
   hadChunks |-> chunks # EmptyMap, hadQueue |-> generationQueue # EmptyMap]

\* --------------------------------------------------------------- actions
\* generateAsync: a caller invokes _generateChunkAsync(cx, cy) itself.
GenerateAsync(k) ==
  /\ AsyncInBounds(k, chunks, generationId, "direct")
  /\ LET r == GenerateChunkAsync(k, chunks, collisionMap, generationId, "direct")
     IN /\ chunks' = r.chunks
        /\ collisionMap' = r.cmap
        /\ generationId' = r.gid
        /\ generationQueue' = r.queue
        /\ jobs' = r.jobs
        /\ lastOp' = Op("generateAsync", k, r.synth, r.dispatched)
        /\ lastRet' = r.ret
  /\ UNCHANGED <<meter, hasDocument, pool, seedNum, noiseConfig, reconfigs>>

\* getChunk(cx, cy)
GetChunk(k) ==
  IF k \in DOMAIN chunks /\ HasCanvas(chunks[k])
    THEN /\ lastOp' = Op("getChunk", k, FALSE, FALSE)
         /\ lastRet' = chunks[k]
         /\ UNCHANGED <<meter, hasDocument, pool, seedNum, noiseConfig, chunks,
                        collisionMap, generationQueue, generationId, jobs,
                        reconfigs>>
    ELSE /\ generationId + Reserved < MaxGen
         /\ LET p == PostProcessGeneratedChunk(k, Null, collisionMap, generationId)
                ch == MapSet(chunks, k, p.chunk)
            IN /\ AsyncInBounds(k, ch, generationId + 1, "getChunk")
               /\ LET r == GenerateChunkAsync(k, ch, p.cmap, generationId + 1, "getChunk")
                  IN /\ chunks' = r.chunks
                     /\ collisionMap' = r.cmap
                     /\ generationId' = r.gid
                     /\ generationQueue' = r.queue
                     /\ jobs' = r.jobs
                     /\ lastOp' = Op("getChunk", k, p.synth \/ r.synth, r.dispatched)
                     /\ lastRet' = p.chunk
         /\ UNCHANGED <<meter, hasDocument, pool, seedNum, noiseConfig, reconfigs>>

\* The task runner answers job j with a result: the generation closure
\* resumes after `await this.pool.enqueue(args)`, stores the chunk and
\* resolves generationPromise for the starting call and for every joiner.
JobSucceed(j) ==
  /\ j \in PendingJobs
  /\ LET k == jobs[j].key
         result == GenerateChunkData(jobs[j].seed, jobs[j].cfg, k)
         p == PostProcessGeneratedChunk(k, result, collisionMap, generationId)
     IN /\ chunks' = MapSet(chunks, k, p.chunk)
        /\ collisionMap' = p.cmap
        /\ generationId' = generationId + 1
        /\ generationQueue' = MapDelete(generationQueue, k)
        /\ jobs' = MapDelete(jobs, j)
        /\ lastOp' = Op("jobSucceed", k, FALSE, FALSE)
        /\ lastRet' = Settled(j, Resolved(p.chunk), Resolved(p.chunk))
  /\ UNCHANGED <<meter, hasDocument, pool, seedNum, noiseConfig, reconfigs>>

\* A fallback that synthesizes from the arguments captured for the job
\* instead of the manager's current seed and configuration.
JobFail_UsesJobArgs(j) ==
  /\ j \in PendingJobs
  /\ LET k == jobs[j].key
         data == GenerateChunkData(jobs[j].seed, jobs[j].cfg, k)
         p == PostProcessGeneratedChunk(k, data, collisionMap, generationId)
     IN /\ chunks' = MapSet(chunks, k, p.chunk)
        /\ collisionMap' = p.cmap
        /\ generationId' = generationId + 1
        /\ generationQueue' = MapDelete(generationQueue, k)
        /\ jobs' = MapDelete(jobs, j)
        /\ lastOp' = Op("jobFail", k, TRUE, FALSE)
        /\ lastRet' = Settled(j, Resolved(p.chunk), Rejected)
  /\ UNCHANGED <<meter, hasDocument, pool, seedNum, noiseConfig, reconfigs>>

\* The task runner answers job j with a failure or a timeout: the closure
\* throws, generationPromise rejects, and the starting call's catch block
\* drops the queue entry and synthesizes the chunk itself.
JobFail(j) ==
  /\ j \in PendingJobs
  /\ LET k == jobs[j].key
         data == GenerateChunkData(seedNum, noiseConfig, k)
         p == PostProcessGeneratedChunk(k, data, collisionMap, generationId)
     IN /\ chunks' = MapSet(chunks, k, p.chunk)
        /\ collisionMap' = p.cmap
        /\ generationId' = generationId + 1
        /\ generationQueue' = MapDelete(generationQueue, k)
        /\ jobs' = MapDelete(jobs, j)
        /\ lastOp' = Op("jobFail", k, TRUE, FALSE)
        /\ lastRet' = Settled(j, Resolved(p.chunk), Rejected)
  /\ UNCHANGED <<meter, hasDocument, pool, seedNum, noiseConfig, reconfigs>>

\* setSeed that forgets `this.generationQueue.clear()`.
SetSeed_KeepsQueue(s) ==
  /\ reconfigs < MaxReconfig
  /\ reconfigs' = reconfigs + 1
  /\ seedNum' = s
  /\ chunks' = EmptyMap
  /\ lastOp' = Reconfigured("setSeed")
  /\ lastRet' = Null
  /\ UNCHANGED <<meter, hasDocument, pool, noiseConfig, collisionMap, generationId,
                 jobs, generationQueue>>

\* setSeed(seed), with s the number seedStringToNumber gives for the seed
SetSeed(s) ==
  /\ reconfigs < MaxReconfig
  /\ reconfigs' = reconfigs + 1
  /\ seedNum' = s
  /\ chunks' = EmptyMap
  /\ generationQueue' = EmptyMap
  /\ lastOp' = Reconfigured("setSeed")
  /\ lastRet' = Null
  /\ UNCHANGED <<meter, hasDocument, pool, noiseConfig, collisionMap, generationId, jobs>>

\* setNoiseConfig(cfg)
SetNoiseConfig(cfg) ==
  /\ reconfigs < MaxReconfig
  /\ reconfigs' = reconfigs + 1
  /\ noiseConfig' = MergeConfig(noiseConfig, cfg)
  /\ chunks' = EmptyMap
  /\ generationQueue' = EmptyMap
  /\ lastOp' = Reconfigured("setNoiseConfig")
  /\ lastRet' = Null
  /\ UNCHANGED <<meter, hasDocument, pool, seedNum, collisionMap, generationId, jobs>>

\* What a clearChunk step remembers: which of the three maps held the key.
Cleared(k) ==
  [op |-> "clearChunk", key |-> k, synth |-> FALSE, dispatched |-> FALSE,
   hadChunk |-> k \in DOMAIN chunks,
   hadQueue |-> k \in DOMAIN generationQueue,
   hadCollision |-> k \in DOMAIN collisionMap]

\* clearChunk without `this.collisionMap.delete(key)`.
ClearChunk_KeepsCollision(k) ==
  /\ chunks' = MapDelete(chunks, k)
  /\ generationQueue' = MapDelete(generationQueue, k)
  /\ lastOp' = Cleared(k)
  /\ lastRet' = [kind |-> "bool", value |-> TRUE]
  /\ UNCHANGED <<meter, hasDocument, pool, seedNum, noiseConfig, generationId, jobs,
                 reconfigs, collisionMap>>

\* clearChunk(cx, cy)
ClearChunk(k) ==
  /\ chunks' = MapDelete(chunks, k)
  /\ generationQueue' = MapDelete(generationQueue, k)
  /\ collisionMap' = MapDelete(collisionMap, k)
  /\ lastOp' = Cleared(k)
  /\ lastRet' = [kind |-> "bool", value |-> TRUE]
  /\ UNCHANGED <<meter, hasDocument, pool, seedNum, noiseConfig, generationId, jobs,
                 reconfigs>>

\* What an unloadFarChunks step remembers: its centre, its radius and the
\* keys it collected in toRemove.
Unloaded(centerCx, centerCy, radius, toRemove) ==
  [op |-> "unloadFarChunks", key |-> Key(centerCx, centerCy),
   synth |-> FALSE, dispatched |-> FALSE, radius |-> radius,
   removed |-> toRemove]

\* unloadFarChunks that collects a chunk only when it is far on both axes.
UnloadFarChunks_BothAxes(centerCx, centerCy, radius) ==
  LET toRemove == {k \in DOMAIN chunks :
                     /\ Abs(chunks[k].cx - centerCx) > radius
                     /\ Abs(chunks[k].cy - centerCy) > radius}
  IN /\ chunks' = [k \in (DOMAIN chunks) \ toRemove |-> chunks[k]]
     /\ collisionMap' = [k \in (DOMAIN collisionMap) \ toRemove |-> collisionMap[k]]
     /\ lastOp' = Unloaded(centerCx, centerCy, radius, toRemove)
     /\ lastRet' = Null
     /\ UNCHANGED <<meter, hasDocument, pool, seedNum, noiseConfig, generationQueue,
                    generationId, jobs, reconfigs>>

\* unloadFarChunks(centerCx, centerCy, radius)
UnloadFarChunks(centerCx, centerCy, radius) ==
  LET toRemove == {k \in DOMAIN chunks :
                     \/ Abs(chunks[k].cx - centerCx) > radius
                     \/ Abs(chunks[k].cy - centerCy) > radius}
  IN /\ chunks' = [k \in (DOMAIN chunks) \ toRemove |-> chunks[k]]
     /\ collisionMap' = [k \in (DOMAIN collisionMap) \ toRemove |-> collisionMap[k]]
     /\ lastOp' = Unloaded(centerCx, centerCy, radius, toRemove)
     /\ lastRet' = Null
     /\ UNCHANGED <<meter, hasDocument, pool, seedNum, noiseConfig, generationQueue,
                    generationId, jobs, reconfigs>>

\* dispose(): the chunk table and the in-flight table are cleared and the
\* pool is told to terminate; the collision registry is not touched.  What
\* terminate() does to jobs already enqueued is the pool's business: they stay
\* pending here and may or may not be answered.
Dispose ==
  /\ reconfigs < MaxReconfig
  /\ reconfigs' = reconfigs + 1
  /\ chunks' = EmptyMap
  /\ generationQueue' = EmptyMap
  /\ lastOp' = Reconfigured("dispose")
  /\ lastRet' = Null
  /\ UNCHANGED <<meter, hasDocument, pool, seedNum, noiseConfig, collisionMap,
                 generationId, jobs>>

\* setPoolSize(n) while there is no pool: _initPool runs again and either
\* builds a WorkerPool or fails once more.
SetPoolSize ==
  /\ ~pool
  /\ pool' \in BOOLEAN
  /\ lastOp' = Op("setPoolSize", NoKey, FALSE, FALSE)
  /\ lastRet' = Null
  /\ UNCHANGED <<meter, hasDocument, seedNum, noiseConfig, chunks, collisionMap,
                 generationQueue, generationId, jobs, reconfigs>>

Next ==
  \/ \E k \in Keys : GenerateAsync(k)
  \/ \E k \in Keys : GetChunk(k)
  \/ \E j \in JobIds : JobSucceed(j)
  \/ \E j \in JobIds : JobFail(j)
  \/ \E s \in Seeds : SetSeed(s)
  \/ \E cfg \in PartialConfigs : SetNoiseConfig(cfg)
  \/ \E k \in Keys : ClearChunk(k)
  \/ \E cx \in Coords, cy \in Coords, r \in Radii : UnloadFarChunks(cx, cy, r)
  \/ Dispose
  \/ SetPoolSize

Spec == Init /\ [][Next]_vars

\* ------------------------------------------------------------- the queries
\* The queries below are applied to a manager that has just been built and
\* has, at most, generated the chunk at the origin.
WorldCoords == -MaxWorld .. MaxWorld

\* The mutable maps and the counter of the manager, as one value a query can
\* thread through the getChunk calls it makes.
Manager ==
  [chunks |-> chunks, cmap |-> collisionMap, queue |-> generationQueue,
   gid |-> generationId, jobs |-> jobs]

\* _generateChunkAsync(cx, cy) as getChunk calls it on manager m; the promise
\* it returns is discarded by getChunk.
GenerateChunkAsyncIn(m, k) ==
  IF k \in DOMAIN m.queue THEN m
  ELSE IF k \in DOMAIN m.chunks /\ HasCanvas(m.chunks[k]) THEN m
  ELSE IF pool THEN
    LET j == CHOOSE i \in 1 .. (Cardinality(DOMAIN m.jobs) + 1) :
               /\ i \notin DOMAIN m.jobs
               /\ \A h \in 1 .. (i - 1) : h \in DOMAIN m.jobs
    IN [m EXCEPT !.queue = MapSet(@, k, j), !.jobs = MapSet(@, j, NewJob(k))]
  ELSE
    LET data == GenerateChunkData(seedNum, noiseConfig, k)
        p == PostProcessGeneratedChunk(k, data, m.cmap, m.gid)
    IN [m EXCEPT !.chunks = MapSet(@, k, p.chunk), !.cmap = p.cmap,
                 !.gid = @ + 1]

\* getChunk(cx, cy) on manager m: the manager after the call and the chunk
\* object returned.
GetChunkIn(m, k) ==
  IF k \in DOMAIN m.chunks /\ HasCanvas(m.chunks[k])
    THEN [m |-> m, ret |-> m.chunks[k]]
    ELSE LET p == PostProcessGeneratedChunk(k, Null, m.cmap, m.gid)
             placed == [m EXCEPT !.chunks = MapSet(@, k, p.chunk),
                                 !.cmap = p.cmap, !.gid = @ + 1]
         IN [m |-> GenerateChunkAsyncIn(placed, k), ret |-> p.chunk]

\* Math.floor(a / b) for integers a and b > 0, by truncation toward zero
\* (what `(a / b) | 0` gives).
FloorDiv_Truncates(a, b) == IF a >= 0 THEN a \div b ELSE -((-a) \div b)

\* Math.floor(a / b) for integers a and b > 0
FloorDiv(a, b) == CHOOSE q \in -(Abs(a) + 1) .. Abs(a) : q * b <= a /\ a < (q + 1) * b

\* The rectangles passed to getChunksInRect.
Rects ==
  [minX : WorldCoords, minY : WorldCoords, maxX : WorldCoords, maxY : WorldCoords]

\* The loops of getChunksInRect from (cx, cy) on: cx outer, cy inner, one
\* getChunk call per pair, its result pushed onto out.
RECURSIVE RectLoop(_, _, _, _, _)
RectLoop(cx, cy, b, m, out) ==
  IF cx > b.maxCx THEN [m |-> m, out |-> out]
  ELSE IF cy > b.maxCy THEN RectLoop(cx + 1, b.minCy, b, m, out)
  ELSE LET g == GetChunkIn(m, Key(cx, cy))
       IN RectLoop(cx, cy + 1, b, g.m, Append(out, g.ret))

\* getChunksInRect(rect)
GetChunksInRect(rect) ==
  /\ lastOp.op = "construct"
  /\ LET tileTotal == ChunkSize * TileSize
         b == [minCx |-> FloorDiv(rect.minX, tileTotal),
               maxCx |-> FloorDiv(rect.maxX, tileTotal),
               minCy |-> FloorDiv(rect.minY, tileTotal),
               maxCy |-> FloorDiv(rect.maxY, tileTotal)]
         r == RectLoop(b.minCx, b.minCy, b, Manager, <<>>)
     IN /\ chunks' = r.m.chunks
        /\ collisionMap' = r.m.cmap
        /\ generationQueue' = r.m.queue
        /\ generationId' = r.m.gid
        /\ jobs' = r.m.jobs
        /\ lastOp' = [op |-> "getChunksInRect", key |-> NoKey, synth |-> FALSE,
                      dispatched |-> FALSE, rect |-> rect]
        /\ lastRet' = [kind |-> "chunks", list |-> r.out]
  /\ UNCHANGED <<meter, hasDocument, pool, seedNum, noiseConfig, reconfigs>>

\* The tile types: 0 deep ocean .. 11 ruin.
TileTypes == 0 .. 11

\* Tile grids a synthesis may have produced, cell i (row-major, from 0) of
\* grid t holding type (t + i) mod 12: every type occurs at every cell.
Grids ==
  {[i \in 0 .. (ChunkSize * ChunkSize - 1) |-> (t + i) % 12] : t \in TileTypes}

\* Terrain data together with the cells of its tile grid.
WithCells(data, g) ==
  [f \in (DOMAIN data) \cup {"cells"} |-> IF f = "cells" THEN g ELSE data[f]]

\* tiles[i] of a Uint8Array
TileAt(tiles, i) == IF tiles = DefaultGrid THEN 0 ELSE tiles.cells[i]

\* getTileAtWorld(x, y); getChunk always returns a chunk object with a tiles
\* array, so the `!chunk || !chunk.tiles` exit is never taken.
GetTileAtWorld(x, y) ==
  /\ lastOp.op = "construct"
  /\ LET tx == FloorDiv(x, TileSize)
         ty == FloorDiv(y, TileSize)
         cx == FloorDiv(tx, ChunkSize)
         cy == FloorDiv(ty, ChunkSize)
         g == GetChunkIn(Manager, Key(cx, cy))
         localX == tx - cx * ChunkSize
         localY == ty - cy * ChunkSize
         stored == TileAt(g.ret.tiles, localY * ChunkSize + localX)
     IN /\ chunks' = g.m.chunks
        /\ collisionMap' = g.m.cmap
        /\ generationQueue' = g.m.queue
        /\ generationId' = g.m.gid
        /\ jobs' = g.m.jobs
        /\ lastOp' = [op |-> "getTileAtWorld", key |-> Key(cx, cy),
                      synth |-> FALSE, dispatched |-> FALSE, x |-> x, y |-> y,
                      localX |-> localX, localY |-> localY]
        /\ lastRet' =
             [kind |-> "tile",
              value |-> IF localX < 0 \/ localX >= ChunkSize
                           \/ localY < 0 \/ localY >= ChunkSize
                          THEN 4
                          ELSE IF stored = 0 THEN 4 ELSE stored]
  /\ UNCHANGED <<meter, hasDocument, pool, seedNum, noiseConfig, reconfigs>>

\* A manager just built, or one whose only request so far, generateAsync(0, 0),
\* has been served with a tile grid from gs.
QueryInit(gs) ==
  /\ meter = Null
  /\ hasDocument \in BOOLEAN
  /\ pool \in BOOLEAN
  /\ seedNum = 0
  /\ noiseConfig = [octaves |-> DefaultOctaves]
  /\ \E served \in BOOLEAN, g \in gs :
       LET k == Key(0, 0)
           p == PostProcessGeneratedChunk(
                  k, WithCells(GenerateChunkData(seedNum, noiseConfig, k), g),
                  EmptyMap, 0)
       IN /\ chunks = IF served THEN MapSet(EmptyMap, k, p.chunk) ELSE EmptyMap
          /\ collisionMap = IF served THEN p.cmap ELSE EmptyMap
          /\ generationId = IF served THEN 1 ELSE 0
  /\ generationQueue = EmptyMap
  /\ jobs = EmptyMap
  /\ reconfigs = 0
  /\ lastOp = [op |-> "construct", key |-> NoKey, synth |-> FALSE,
               dispatched |-> FALSE]
  /\ lastRet = Null

RectNext == \E rect \in Rects : GetChunksInRect(rect)

\* The grid with type t at cell 0.
GridFrom(t) == CHOOSE g \in Grids : g[0] = t

RectSpec == QueryInit({GridFrom(4)}) /\ [][RectNext]_vars

\* ---------------------------------------------------------- checkCollision
\* Lengths and positions of the collision model are in half pixels, the unit
\* in which a tile centre (tilePx / 2) is an integer for every tile size.
Half(n) == 2 * n

\* Tiles a decoration pass may have planted a tree on: the first and the last
\* tile of chunk (-1, 0) and of chunk (0, 0).
TreeSites ==
  {<<Key(cx, 0), t, t>> : cx \in {-1, 0}, t \in {0, ChunkSize - 1}}

\* collisionRadius of a tree, Math.max(width, height) * 0.4: between half a
\* tile and a tile.
ObstacleRadii == TileSize .. (2 * TileSize)

\* The entry _decorateChunk pushes for a tree on tile (tx, ty) of chunk k.
Tree(k, tx, ty, cr) ==
  [id |-> <<k, tx, ty>>, type |-> "tree",
   x |-> Half(k[1] * ChunkSize * TileSize + tx * TileSize) + TileSize,
   y |-> Half(k[2] * ChunkSize * TileSize + ty * TileSize) + TileSize,
   width |-> 2 * cr, collisionRadius |-> cr]

\* The tree list of chunk k from tile index idx on, in the order of the
\* decoration scan (ty outer, tx inner), for trees on the tiles in sites.
RECURSIVE TreeList(_, _, _, _)
TreeList(k, sites, cr, idx) ==
  IF idx >= ChunkSize * ChunkSize THEN <<>>
  ELSE LET tx == idx % ChunkSize
           ty == idx \div ChunkSize
           rest == TreeList(k, sites, cr, idx + 1)
       IN IF <<k, tx, ty>> \in sites
            THEN <<Tree(k, tx, ty, cr)>> \o rest
            ELSE rest

\* No ignoreId given (null).
NoId == <<>>

\* The obstacle test of checkCollision without the ignoreId skip.
Collides_NoIgnore(o, x, y, radius, ignoreId) ==
  LET dx == o.x - Half(x)
      dy == o.y - Half(y)
      minDistance == Half(radius) + (IF o.collisionRadius # 0
                                       THEN o.collisionRadius
                                       ELSE o.width \div 2)
  IN /\ minDistance > 0
     /\ dx * dx + dy * dy < minDistance * minDistance

\* The obstacle test of checkCollision: not the ignored obstacle, and
\* distance < minDistance (both sides compared by their squares, distance
\* being a square root and so never negative).
Collides(o, x, y, radius, ignoreId) ==
  LET dx == o.x - Half(x)
      dy == o.y - Half(y)
      minDistance == Half(radius) + (IF o.collisionRadius # 0
                                       THEN o.collisionRadius
                                       ELSE o.width \div 2)
  IN /\ ~(ignoreId # NoId /\ o.id = ignoreId)
     /\ minDistance > 0
     /\ dx * dx + dy * dy < minDistance * minDistance

\* What a JavaScript number division gives that is not a number.
NaN == [kind |-> "NaN"]

\* n / Math.sqrt(dSq) for an integer n with n * n <= dSq: 0 / 0 is NaN,
\* anything else the quotient, kept as numerator and squared divisor.
OverRoot(n, dSq) ==
  IF dSq = 0 THEN NaN ELSE [kind |-> "quotient", num |-> n, divisorSq |-> dSq]

\* The result returned for a hit on obstacle o: penetration is
\* minDistance - sqrt(distanceSq) and direction is (dx, dy) / sqrt(distanceSq),
\* kept as the numerators and the square of their common divisor.
Collision(o, x, y, radius) ==
  LET dx == o.x - Half(x)
      dy == o.y - Half(y)
  IN [collided |-> TRUE, obstacle |-> o,
      minDistance |-> Half(radius) + (IF o.collisionRadius # 0
                                        THEN o.collisionRadius
                                        ELSE o.width \div 2),
      distanceSq |-> dx * dx + dy * dy,
      direction |-> [dx |-> dx, dy |-> dy, divisorSq |-> dx * dx + dy * dy,
                     x |-> OverRoot(dx, dx * dx + dy * dy),
                     y |-> OverRoot(dy, dx * dx + dy * dy)]]

\* The 3 x 3 chunk offsets visited from offsetX = 1 down to -1.
Offsets_Descending ==
  << <<1, -1>>, <<1, 0>>, <<1, 1>>, <<0, -1>>, <<0, 0>>, <<0, 1>>,
     <<-1, -1>>, <<-1, 0>>, <<-1, 1>> >>

\* The 3 x 3 chunk offsets in the order checkCollision visits them: offsetX
\* outer, offsetY inner.
Offsets ==
  << <<-1, -1>>, <<-1, 0>>, <<-1, 1>>, <<0, -1>>, <<0, 0>>, <<0, 1>>,
     <<1, -1>>, <<1, 0>>, <<1, 1>> >>

\* The obstacle loop from position i of the list on.
RECURSIVE ScanObstacles(_, _, _, _, _, _)
ScanObstacles(obstacles, i, x, y, radius, ignoreId) ==
  IF i > Len(obstacles) THEN [collided |-> FALSE]
  ELSE IF Collides(obstacles[i], x, y, radius, ignoreId)
    THEN Collision(obstacles[i], x, y, radius)
    ELSE ScanObstacles(obstacles, i + 1, x, y, radius, ignoreId)

\* The chunk loop from offset n on.
RECURSIVE ScanChunks(_, _, _, _, _)
ScanChunks(n, x, y, radius, ignoreId) ==
  IF n > Len(Offsets) THEN [collided |-> FALSE]
  ELSE LET chunkKey == Key(FloorDiv(x, ChunkSize * TileSize) + Offsets[n][1],
                           FloorDiv(y, ChunkSize * TileSize) + Offsets[n][2])
           hit == IF chunkKey \in DOMAIN collisionMap
                    THEN ScanObstacles(collisionMap[chunkKey], 1, x, y, radius,
                                       ignoreId)
                    ELSE [collided |-> FALSE]
       IN IF hit.collided THEN hit
          ELSE ScanChunks(n + 1, x, y, radius, ignoreId)

\* checkCollision fetching the chunk of the query point with getChunk before
\* it scans the registry.
CheckCollision_LoadsChunk(x, y, radius, ignoreId) ==
  /\ lastOp.op = "construct"
  /\ lastOp' = [op |-> "checkCollision", key |-> NoKey, synth |-> FALSE,
                dispatched |-> FALSE, x |-> x, y |-> y, radius |-> radius,
                ignoreId |-> ignoreId]
  /\ lastRet' = ScanChunks(1, x, y, radius, ignoreId)
  /\ LET g == GetChunkIn(Manager, Key(FloorDiv(x, ChunkSize * TileSize),
                                      FloorDiv(y, ChunkSize * TileSize)))
     IN /\ chunks' = g.m.chunks
        /\ collisionMap' = g.m.cmap
        /\ generationQueue' = g.m.queue
        /\ generationId' = g.m.gid
        /\ jobs' = g.m.jobs
  /\ UNCHANGED <<meter, hasDocument, pool, seedNum, noiseConfig, reconfigs>>

\* checkCollision(x, y, radius, ignoreId): reads the collision registry only.
CheckCollision(x, y, radius, ignoreId) ==
  /\ lastOp.op = "construct"
  /\ lastOp' = [op |-> "checkCollision", key |-> NoKey, synth |-> FALSE,
                dispatched |-> FALSE, x |-> x, y |-> y, radius |-> radius,
                ignoreId |-> ignoreId]
  /\ lastRet' = ScanChunks(1, x, y, radius, ignoreId)
  /\ UNCHANGED <<meter, hasDocument, pool, seedNum, noiseConfig, chunks, collisionMap,
                 generationQueue, generationId, jobs, reconfigs>>

\* The ground a rendered chunk has where no tree stands: grass or mountain.
Grounds == {4, 7}

\* The tile grid of chunk k: forest (5) under its trees, ground elsewhere.
TreeGrid(k, sites, ground) ==
  [i \in 0 .. (ChunkSize * ChunkSize - 1) |->
     IF <<k, i % ChunkSize, i \div ChunkSize>> \in sites THEN 5 ELSE ground]

\* The chunk table and the collision registry after keys[1 .. i] have been
\* generated and rendered in that order.
RECURSIVE RenderAll(_, _, _, _, _)
RenderAll(keys, i, sites, cr, ground) ==
  IF i = 0 THEN [chunks |-> EmptyMap, cmap |-> EmptyMap]
  ELSE LET prev == RenderAll(keys, i - 1, sites, cr, ground)
           k == keys[i]
           data == WithCells(GenerateChunkData(seedNum, noiseConfig, k),
                             TreeGrid(k, sites, ground))
           p == PostProcessGeneratedChunk(k, data, prev.cmap, i - 1)
       IN [chunks |-> MapSet(prev.chunks, k, p.chunk),
           cmap |-> MapSet(p.cmap, k, TreeList(k, sites, cr, 0))]

\* A manager in a browser, with its worker pool, that has rendered the chunks
\* of keys, whose decoration planted trees of one size on some tiles of
\* universe.
Rendered(keys, universe, grounds) ==
  /\ meter = Null
  /\ hasDocument = TRUE
  /\ pool = TRUE
  /\ seedNum = 0
  /\ noiseConfig = [octaves |-> DefaultOctaves]
  /\ \E sites \in SUBSET universe, cr \in ObstacleRadii, ground \in grounds :
       /\ Cardinality(sites) <= MaxTrees
       /\ LET r == RenderAll(keys, Len(keys), sites, cr, ground)
          IN chunks = r.chunks /\ collisionMap = r.cmap
  /\ generationId = Len(keys)
  /\ generationQueue = EmptyMap
  /\ jobs = EmptyMap
  /\ reconfigs = 0
  /\ lastOp = [op |-> "construct", key |-> NoKey, synth |-> FALSE,
               dispatched |-> FALSE]
  /\ lastRet = Null

CollisionInit == Rendered(<<Key(-1, 0), Key(0, 0)>>, TreeSites, Grounds)

CollisionNext ==
  \E x \in WorldCoords, y \in WorldCoords, radius \in 0 .. MaxQueryRadius,
     ignoreId \in {NoId} \cup TreeSites :
    CheckCollision(x, y, radius, ignoreId)

CollisionSpec == CollisionInit /\ [][CollisionNext]_vars

\* ------------------------------------------------------ getNearbyObstacles
\* The tree sites of the nearby scan: those of chunks (-1, 0) and (0, 0) and the
\* first and last tile of chunk (1, 0).
NearbySites == TreeSites \cup {<<Key(1, 0), t, t>> : t \in {0, ChunkSize - 1}}

\* Radii passed to getNearbyObstacles, in pixels.
NearbyRadii == {0, MaxQueryRadius, 2 * ChunkSize * TileSize - 1}

\* `distance <= radius` in place of `distance < radius`.
Near_Inclusive(o, x, y, radius) ==
  LET dx == o.x - Half(x)
      dy == o.y - Half(y)
  IN radius >= 0 /\ dx * dx + dy * dy <= Half(radius) * Half(radius)

\* `distance < radius`, compared by squares.
Near(o, x, y, radius) ==
  LET dx == o.x - Half(x)
      dy == o.y - Half(y)
  IN radius > 0 /\ dx * dx + dy * dy < Half(radius) * Half(radius)

\* { ...obstacle, distance }: the obstacle with its distance (as a square).
Annotated(o, x, y) ==
  LET dx == o.x - Half(x)
      dy == o.y - Half(y)
  IN [f \in (DOMAIN o) \cup {"distanceSq"} |->
        IF f = "distanceSq" THEN dx * dx + dy * dy ELSE o[f]]

\* The inner loop over one registry entry from position i on.
RECURSIVE NearbyOf(_, _, _, _, _)
NearbyOf(obstacles, i, x, y, radius) ==
  IF i > Len(obstacles) THEN <<>>
  ELSE (IF Near(obstacles[i], x, y, radius)
          THEN <<Annotated(obstacles[i], x, y)>>
          ELSE <<>>)
       \o NearbyOf(obstacles, i + 1, x, y, radius)

\* The outer loop over the registry entries still to visit.  A Map iterates in
\* insertion order, which the registry of the model does not keep; the entries
\* are visited in an order fixed by CHOOSE.
RECURSIVE NearbyScan(_, _, _, _)
NearbyScan(todo, x, y, radius) ==
  IF todo = {} THEN <<>>
  ELSE LET k == CHOOSE c \in todo : TRUE
       IN NearbyOf(collisionMap[k], 1, x, y, radius)
          \o NearbyScan(todo \ {k}, x, y, radius)

\* getNearbyObstacles(x, y, radius): reads the collision registry only.
GetNearbyObstacles(x, y, radius) ==
  /\ lastOp.op = "construct"
  /\ lastOp' = [op |-> "getNearbyObstacles", key |-> NoKey, synth |-> FALSE,
                dispatched |-> FALSE, x |-> x, y |-> y, radius |-> radius]
  /\ lastRet' = [kind |-> "obstacles",
                 list |-> NearbyScan(DOMAIN collisionMap, x, y, radius)]
  /\ UNCHANGED <<meter, hasDocument, pool, seedNum, noiseConfig, chunks, collisionMap,
                 generationQueue, generationId, jobs, reconfigs>>

NearbyInit == Rendered(<<Key(-1, 0), Key(0, 0), Key(1, 0)>>, NearbySites, {4})

NearbyNext ==
  \E x \in WorldCoords, y \in WorldCoords, radius \in NearbyRadii :
    GetNearbyObstacles(x, y, radius)

NearbySpec == NearbyInit /\ [][NearbyNext]_vars

\* The two registry queries on one rendered manager.
ReadInit == Rendered(<<Key(-1, 0), Key(0, 0)>>, TreeSites, {4})

ReadNext == CollisionNext \/ NearbyNext

ReadSpec == ReadInit /\ [][ReadNext]_vars

\* ---------------------------------------------------- tile classification
\* The per-tile body of _generateChunkData, on noise values in thousandths
\* (0.12 is 120).  The sampled values are each cut-point of the code and its
\* two neighbours, with the ends of the range.
Around(cuts) == UNION {{c - 1, c, c + 1} : c \in cuts}

Heights ==
  {0, 1200} \cup Around({60, 90, 120, 160, 300, 350, 500, 600, 650, 820, 880})
Moistures == {0} \cup Around({300, 400, 700})
Temperatures == Around({500, 600})
Ridges == Around({600})
Features == {0} \cup Around({650, 670, 750})

\* The biome chain with `<=` where the code compares with `<`.
BaseTile_Inclusive(height, moisture, temperature, ridge) ==
  IF height <= 120 THEN
    (IF height <= 60 THEN 0 ELSE IF height <= 90 THEN 1 ELSE 2)
  ELSE IF height <= 160 THEN 3
  ELSE IF height <= 650 THEN
    (IF moisture > 700 THEN 5 ELSE IF moisture < 300 THEN 6 ELSE 4)
  ELSE IF height <= 820 THEN
    (IF ridge > 600 THEN 7 ELSE IF temperature > 600 THEN 6 ELSE 4)
  ELSE (IF height > 880 THEN 8 ELSE 7)

\* tileType after the biome if-chain
BaseTile(height, moisture, temperature, ridge) ==
  IF height < 120 THEN
    (IF height < 60 THEN 0 ELSE IF height < 90 THEN 1 ELSE 2)
  ELSE IF height < 160 THEN 3
  ELSE IF height < 650 THEN
    (IF moisture > 700 THEN 5 ELSE IF moisture < 300 THEN 6 ELSE 4)
  ELSE IF height < 820 THEN
    (IF ridge > 600 THEN 7 ELSE IF temperature > 600 THEN 6 ELSE 4)
  ELSE (IF height > 880 THEN 8 ELSE 7)

\* The infrastructure override without its height conditions.
Infrastructure_AnyHeight(base, height, moisture, temperature, featureNoise) ==
  IF featureNoise > 650 /\ featureNoise < 670 /\ moisture > 400
    THEN 9
  ELSE IF featureNoise > 750
    THEN (IF temperature > 500 THEN 10 ELSE 11)
  ELSE base

\* tileType after the infrastructure test: the value written to tiles[idx]
Infrastructure(base, height, moisture, temperature, featureNoise) ==
  IF featureNoise > 650 /\ featureNoise < 670 /\ height > 300 /\ height < 600
     /\ moisture > 400
    THEN 9
  ELSE IF featureNoise > 750 /\ height > 350 /\ height < 500
    THEN (IF temperature > 500 THEN 10 ELSE 11)
  ELSE base

\* One tile classified from its five noise values.
Classify(height, moisture, temperature, ridge, featureNoise) ==
  /\ lastOp.op = "construct"
  /\ LET base == BaseTile(height, moisture, temperature, ridge)
     IN /\ lastOp' = [op |-> "classify", key |-> NoKey, synth |-> FALSE,
                      dispatched |-> FALSE, height |-> height,
                      moisture |-> moisture, temperature |-> temperature,
                      ridge |-> ridge, featureNoise |-> featureNoise]
        /\ lastRet' = [kind |-> "tile", base |-> base,
                       value |-> Infrastructure(base, height, moisture,
                                                temperature, featureNoise)]
  /\ UNCHANGED <<meter, hasDocument, pool, seedNum, noiseConfig, chunks, collisionMap,
                 generationQueue, generationId, jobs, reconfigs>>

ClassifyInit == Init /\ ~hasDocument /\ ~pool

ClassifyNext ==
  /\ lastOp.op = "construct"
  /\ \E height \in Heights, moisture \in Moistures,
        temperature \in Temperatures,
        ridge \in Ridges, featureNoise \in Features :
       Classify(height, moisture, temperature, ridge, featureNoise)

ClassifySpec == ClassifyInit /\ [][ClassifyNext]_vars

TileNext == \E x \in WorldCoords, y \in WorldCoords : GetTileAtWorld(x, y)

TileSpec == QueryInit(Grids) /\ [][TileNext]_vars

\* ------------------------------------------------- _checkTerrainCollision
\* getTileAtWorld(x, y) on manager m: the manager after the getChunk call it
\* makes, and the tile type returned.
GetTileAtWorldIn(m, x, y) ==
  LET tx == FloorDiv(x, TileSize)
      ty == FloorDiv(y, TileSize)
      cx == FloorDiv(tx, ChunkSize)
      cy == FloorDiv(ty, ChunkSize)
      g == GetChunkIn(m, Key(cx, cy))
      localX == tx - cx * ChunkSize
      localY == ty - cy * ChunkSize
      stored == TileAt(g.ret.tiles, localY * ChunkSize + localX)
  IN [m |-> g.m,
      value |-> IF localX < 0 \/ localX >= ChunkSize
                   \/ localY < 0 \/ localY >= ChunkSize
                  THEN 4
                  ELSE IF stored = 0 THEN 4 ELSE stored]

\* collisionTiles: forest, mountain, snow mountain, building, ruin
BlockingTiles == {5, 7, 8, 10, 11}

\* `tileType === 0 || tileType === 1`: deep ocean and ocean
WaterTiles == {0, 1}

\* distance < radius + tenths * tileSize / 10 for the centre of tile
\* (checkX, checkY), both sides in tenths of a pixel and compared by their
\* squares.
NearTile(checkX, checkY, x, y, radius, tenths) ==
  LET dx == Half(checkX * TileSize) + TileSize - Half(x)
      dy == Half(checkY * TileSize) + TileSize - Half(y)
      minDistance == 10 * radius + tenths * TileSize
  IN minDistance > 0 /\ 25 * (dx * dx + dy * dy) < minDistance * minDistance

\* The result returned for a hit on tile (checkX, checkY).
TerrainHit(name, tileType, checkX, checkY) ==
  [collided |-> TRUE,
   obstacle |-> [type |-> name, tileType |-> tileType,
                 x |-> Half(checkX * TileSize) + TileSize,
                 y |-> Half(checkY * TileSize) + TileSize]]

\* The tile loops from offset n on, on manager m: one getTileAtWorld call per
\* tile visited.
RECURSIVE TerrainScan(_, _, _, _, _)
TerrainScan(n, m, x, y, radius) ==
  IF n > Len(Offsets) THEN [m |-> m, ret |-> [collided |-> FALSE]]
  ELSE LET checkX == FloorDiv(x, TileSize) + Offsets[n][1]
           checkY == FloorDiv(y, TileSize) + Offsets[n][2]
           t == GetTileAtWorldIn(m, checkX * TileSize, checkY * TileSize)
       IN IF t.value \in BlockingTiles
             /\ NearTile(checkX, checkY, x, y, radius, 4)
            THEN [m |-> t.m,
                  ret |-> TerrainHit("blocking", t.value, checkX, checkY)]
          ELSE IF t.value \in WaterTiles
                  /\ NearTile(checkX, checkY, x, y, radius, 3)
            THEN [m |-> t.m,
                  ret |-> TerrainHit("water", t.value, checkX, checkY)]
          ELSE TerrainScan(n + 1, t.m, x, y, radius)

\* _checkTerrainCollision(x, y, radius)
CheckTerrainCollision(x, y, radius) ==
  /\ lastOp.op = "construct"
  /\ LET r == TerrainScan(1, Manager, x, y, radius)
     IN /\ chunks' = r.m.chunks
        /\ collisionMap' = r.m.cmap
        /\ generationQueue' = r.m.queue
        /\ generationId' = r.m.gid
        /\ jobs' = r.m.jobs
        /\ lastRet' = r.ret
  /\ lastOp' = [op |-> "checkTerrainCollision", key |-> NoKey,
                synth |-> FALSE, dispatched |-> FALSE, x |-> x, y |-> y,
                radius |-> radius]
  /\ UNCHANGED <<meter, hasDocument, pool, seedNum, noiseConfig, reconfigs>>

TerrainNext ==
  \E x \in WorldCoords, y \in WorldCoords, radius \in 0 .. MaxQueryRadius :
    CheckTerrainCollision(x, y, radius)

TerrainSpec == QueryInit(Grids) /\ [][TerrainNext]_vars

\* ---------------------------------------------------------- _createChunkRNG
\* A 32-bit integer is kept as its four bytes, least significant first, so
\* that no product leaves the range of the checker's integers.
Pow256(i) == IF i = 0 THEN 1 ELSE IF i = 1 THEN 256
             ELSE IF i = 2 THEN 65536 ELSE 16777216

\* ToInt32(n) for an integer n with -2^31 <= n < 2^31 (two's complement)
ToInt32(n) ==
  [i \in 0 .. 3 |->
     IF n >= 0 THEN (n \div Pow256(i)) % 256
     ELSE 255 - ((((-n) - 1) \div Pow256(i)) % 256)]

\* Math.imul(a, b) | 0: the low 32 bits of the product
Imul(a, b) ==
  LET c0 == a[0] * b[0]
      c1 == a[0] * b[1] + a[1] * b[0] + (c0 \div 256)
      c2 == a[0] * b[2] + a[1] * b[1] + a[2] * b[0] + (c1 \div 256)
      c3 == a[0] * b[3] + a[1] * b[2] + a[2] * b[1] + a[3] * b[0]
            + (c2 \div 256)
  IN [i \in 0 .. 3 |->
        IF i = 0 THEN c0 % 256 ELSE IF i = 1 THEN c1 % 256
        ELSE IF i = 2 THEN c2 % 256 ELSE c3 % 256]

\* The multiplier of the generator
Multiplier == ToInt32(1597334677)

\* The two `state = Math.imul(state, 1597334677) | 0` lines of one roll
Advance(state) == Imul(Imul(state, Multiplier), Multiplier)

\* state & 0x7fffffff
Low31(state) ==
  state[0] + 256 * state[1] + 65536 * state[2] + 16777216 * (state[3] % 128)

\* 0x7fffffff, the divisor of a roll
RollDivisor == 2147483647

\* The seeds the generator is created from: the small ones, and the one whose
\* first state has its low 31 bits all set.
RngSeeds == ((-MaxRngSeed) .. MaxRngSeed) \cup {1191975031}

\* _createChunkRNG(cx, cy) with this.seedNum + cx * 131 + cy * 197 = seed
CreateChunkRNG(seed) ==
  /\ lastOp.op = "construct"
  /\ lastOp' = [op |-> "createChunkRNG", key |-> NoKey, synth |-> FALSE,
                dispatched |-> FALSE, seed |-> seed, state |-> ToInt32(seed),
                position |-> 0]
  /\ lastRet' = Null
  /\ UNCHANGED <<meter, hasDocument, pool, seedNum, noiseConfig, chunks, collisionMap,
                 generationQueue, generationId, jobs, reconfigs>>

\* One call of the closure _createChunkRNG returned: the roll is
\* num / RollDivisor.
Rng ==
  /\ lastOp.op \in {"createChunkRNG", "rng"}
  /\ lastOp.position < MaxRolls
  /\ LET state == Advance(lastOp.state)
     IN /\ lastOp' = [lastOp EXCEPT !.op = "rng", !.state = state,
                                    !.position = @ + 1]
        /\ lastRet' = [kind |-> "roll", num |-> Low31(state),
                       den |-> RollDivisor]
  /\ UNCHANGED <<meter, hasDocument, pool, seedNum, noiseConfig, chunks, collisionMap,
                 generationQueue, generationId, jobs, reconfigs>>

RngInit == Init /\ ~hasDocument /\ ~pool

RngNext == (\E seed \in RngSeeds : CreateChunkRNG(seed)) \/ Rng

RngSpec == RngInit /\ [][RngNext]_vars

\* ------------------------------------------------------------ _decorateChunk
\* this.seedNum + cx * 131 + cy * 197, with a state shared by all passes added.
ChunkSeed_Shared(s, k) == s + k[1] * 131 + k[2] * 197 + lastOp.passes

\* this.seedNum + cx * 131 + cy * 197
ChunkSeed(s, k) == s + k[1] * 131 + k[2] * 197

\* roll < thousandths / 1000 for the roll num / RollDivisor, that is
\* 1000 * num < thousandths * RollDivisor, computed on quotient and remainder
\* of RollDivisor by 1000.
RollBelow(num, thousandths) ==
  LET q == thousandths * (RollDivisor \div 1000)
           + (thousandths * (RollDivisor % 1000)) \div 1000
      exact == (thousandths * (RollDivisor % 1000)) % 1000 = 0
  IN IF exact THEN num < q ELSE num <= q

\* The tree test of the switch without the moisture condition on grass.
PlantsTree_AnyMoisture(tileType, roll, moisture) ==
  \/ tileType = 5 /\ RollBelow(roll, 300)
  \/ tileType = 4 /\ RollBelow(roll, 50)

\* The switch pushes a tree for this tile: case 5 with featureRoll < 0.3,
\* case 4 with featureRoll < 0.05 && moisture > 0.5.
PlantsTree(tileType, roll, moisture) ==
  \/ tileType = 5 /\ RollBelow(roll, 300)
  \/ tileType = 4 /\ RollBelow(roll, 50) /\ moisture > 500

\* treeType passed to _drawTree
TreeType(tileType, roll) ==
  IF tileType = 5
    THEN (IF RollBelow(roll, 100) THEN "pine"
          ELSE IF RollBelow(roll, 200) THEN "birch" ELSE "oak")
    ELSE "oak"

\* The entry pushed for a tree on tile (tx, ty) of chunk k: position in half
\* pixels; width, height and collisionRadius are functions of the size factor
\* (tenths of a tile: 11 on forest, 9 on grass), the tile type and the roll.
DecorTree(k, tx, ty, tileType, roll) ==
  [id |-> <<k, tx, ty>>, type |-> "tree",
   x |-> Half(k[1] * ChunkSize * TileSize + tx * TileSize) + TileSize,
   y |-> Half(k[2] * ChunkSize * TileSize + ty * TileSize) + TileSize,
   sizeTenths |-> IF tileType = 5 THEN 11 ELSE 9,
   treeType |-> TreeType(tileType, roll),
   roll |-> roll]

\* The tile loops from index idx on (ty outer, tx inner), with the generator
\* in the given state: one rng() call per tile, then the switch.
RECURSIVE DecorateFrom(_, _, _, _, _)
DecorateFrom(k, cells, moisture, idx, state) ==
  IF idx >= ChunkSize * ChunkSize THEN <<>>
  ELSE LET after == Advance(state)
           featureRoll == Low31(after)
           rest == DecorateFrom(k, cells, moisture, idx + 1, after)
       IN IF PlantsTree(cells[idx], featureRoll, moisture[idx])
            THEN <<DecorTree(k, idx % ChunkSize, idx \div ChunkSize,
                             cells[idx], featureRoll)>> \o rest
            ELSE rest

\* chunkTrees of _decorateChunk for chunk k under numeric seed s; every entry
\* has type 'tree', so the filtered list stored in the collision map is the
\* same list.
Decoration(s, k, cells, moisture) ==
  DecorateFrom(k, cells, moisture, 0, ToInt32(ChunkSeed(s, k)))

\* The chunks of the decoration passes and the moisture values of their
\* tiles (thousandths).
DecorKeys == {Key(0, 0), Key(1, 0)}
DecorMoistures == {500, 501}

\* The terrain of a chunk: tile grid g and moisture m on every tile.
DecorData(k, g, m) ==
  [f \in {"kind", "seed", "cfg", "key", "cells", "moisture"} |->
     IF f = "moisture" THEN [i \in DOMAIN g |-> m]
     ELSE WithCells(GenerateChunkData(seedNum, noiseConfig, k), g)[f]]

\* _decorateChunk(ctx, cx, cy, tiles, biomeData, tilePx) on the stored terrain
\* of chunk k.
Decorate(k) ==
  /\ lastOp.passes < MaxPasses
  /\ LET trees == Decoration(seedNum, k, chunks[k].tiles.cells,
                              chunks[k].tiles.moisture)
     IN /\ collisionMap' = MapSet(collisionMap, k, trees)
        /\ lastRet' = [kind |-> "chunkTrees", list |-> trees]
  /\ lastOp' = [op |-> "decorateChunk", key |-> k, synth |-> FALSE,
                dispatched |-> FALSE, passes |-> lastOp.passes + 1]
  /\ UNCHANGED <<meter, hasDocument, pool, seedNum, noiseConfig, chunks,
                 generationQueue, generationId, jobs, reconfigs>>

\* A manager in a browser that has generated and rendered the chunks of
\* DecorKeys, each decorated once when it was rendered.
DecorateInit ==
  /\ meter = Null
  /\ hasDocument = TRUE
  /\ pool = TRUE
  /\ seedNum \in (-MaxRngSeed) .. MaxRngSeed
  /\ noiseConfig = [octaves |-> DefaultOctaves]
  /\ lastOp = [op |-> "construct", key |-> NoKey, synth |-> FALSE,
               dispatched |-> FALSE, passes |-> 0]
  /\ lastRet = Null
  /\ \E g \in Grids, m \in DecorMoistures :
       /\ chunks = [k \in DecorKeys |->
            LET data == DecorData(k, g, m)
            IN [cx |-> k[1], cy |-> k[2], tiles |-> data, biomeData |-> data,
                canvas |-> [kind |-> "canvas", drawn |-> data],
                generationId |-> IF k = Key(0, 0) THEN 0 ELSE 1]]
       /\ collisionMap = [k \in DecorKeys |->
            Decoration(seedNum, k, g, [i \in DOMAIN g |-> m])]
  /\ generationId = Cardinality(DecorKeys)
  /\ generationQueue = EmptyMap
  /\ jobs = EmptyMap
  /\ reconfigs = 0

DecorateNext == \E k \in DecorKeys : Decorate(k)

DecorateSpec == DecorateInit /\ [][DecorateNext]_vars

\* ---------------------------------------------------------------- PerfMeter
\* Times are in tenths of a millisecond, the unit of the 0.1 ms floor of
\* recordFrame.
\* The arguments passed to recordFrame: numbers, valid ones and 0 and -1, NaN
\* and undefined.
FrameArgs ==
  {[kind |-> "number", value |-> v] : v \in -1 .. MaxDelta}
    \cup {[kind |-> "NaN", value |-> 0], [kind |-> "undefined", value |-> 0]}

\* `typeof frameTimeMs !== 'number' || !isFinite(frameTimeMs) || frameTimeMs <= 0`
InvalidFrame(arg) == arg.kind # "number" \/ arg.value <= 0

\* The value of a numeric result that is exactly 0.
Zero == [kind |-> "number", zero |-> TRUE]

\* new PerfMeter({ sampleWindow }) at performance.now() = 0
NewMeter(sampleWindow) ==
  [sampleWindow |-> sampleWindow, deltas |-> <<>>, emaFps |-> Null,
   frames |-> 0, lastNow |-> 0]

\* What a PerfMeter step remembers: every delta recordFrame stored since the
\* last reset, in arrival order.
MeterOp(name, arrived) ==
  [op |-> name, key |-> NoKey, synth |-> FALSE, dispatched |-> FALSE,
   arrived |-> arrived]

\* The sum of a sequence of deltas
RECURSIVE SumOf(_)
SumOf(seq) == IF seq = <<>> THEN 0 ELSE Head(seq) + SumOf(Tail(seq))

\* 1000 / avgDelta for the stored deltas, as the fraction
\* (10000 * length) / sum (the sum being in tenths of a millisecond).
InstantFps(deltas) ==
  [kind |-> "number", zero |-> FALSE, num |-> 10000 * Len(deltas),
   den |-> SumOf(deltas)]

\* recordFrame dropping the newest delta when the window is full.
RecordFrame_DropsNewest(arg, now) ==
  /\ meter.frames < MaxFrames
  /\ now >= meter.lastNow
  /\ InvalidFrame(arg) \/ now = meter.lastNow
  /\ LET frameTimeMs == IF InvalidFrame(arg)
                          THEN (IF now - meter.lastNow > 1
                                  THEN now - meter.lastNow ELSE 1)
                          ELSE arg.value
         pushed == Append(meter.deltas, frameTimeMs)
         kept == IF Len(pushed) > meter.sampleWindow
                   THEN SubSeq(pushed, 1, Len(pushed) - 1) ELSE pushed
         instantFps == IF kept = <<>> THEN Zero ELSE InstantFps(kept)
         emaFps == IF meter.emaFps = Null
                     THEN [kind |-> "ema", terms |-> <<instantFps>>]
                     ELSE [kind |-> "ema",
                           terms |-> Append(meter.emaFps.terms, instantFps)]
     IN /\ meter' = [meter EXCEPT !.deltas = kept, !.emaFps = emaFps,
                                  !.frames = @ + 1,
                                  !.lastNow = IF InvalidFrame(arg) THEN now
                                              ELSE @]
        /\ lastOp' = MeterOp("recordFrame",
                             Append(lastOp.arrived, frameTimeMs))
        /\ lastRet' = emaFps
  /\ UNCHANGED <<hasDocument, pool, seedNum, noiseConfig, chunks, collisionMap,
                 generationQueue, generationId, jobs, reconfigs>>

\* recordFrame(frameTimeMs) with performance.now() = now where it is read.
\* The exponential average is kept as the list of the instant values it was
\* folded from.
RecordFrame(arg, now) ==
  /\ meter.frames < MaxFrames
  /\ now >= meter.lastNow
  /\ InvalidFrame(arg) \/ now = meter.lastNow
  /\ LET frameTimeMs == IF InvalidFrame(arg)
                          THEN (IF now - meter.lastNow > 1
                                  THEN now - meter.lastNow ELSE 1)
                          ELSE arg.value
         pushed == Append(meter.deltas, frameTimeMs)
         kept == IF Len(pushed) > meter.sampleWindow
                   THEN Tail(pushed) ELSE pushed
         instantFps == IF kept = <<>> THEN Zero ELSE InstantFps(kept)
         emaFps == IF meter.emaFps = Null
                     THEN [kind |-> "ema", terms |-> <<instantFps>>]
                     ELSE [kind |-> "ema",
                           terms |-> Append(meter.emaFps.terms, instantFps)]
     IN /\ meter' = [meter EXCEPT !.deltas = kept, !.emaFps = emaFps,
                                  !.frames = @ + 1,
                                  !.lastNow = IF InvalidFrame(arg) THEN now
                                              ELSE @]
        /\ lastOp' = MeterOp("recordFrame",
                             Append(lastOp.arrived, frameTimeMs))
        /\ lastRet' = emaFps
  /\ UNCHANGED <<hasDocument, pool, seedNum, noiseConfig, chunks, collisionMap,
                 generationQueue, generationId, jobs, reconfigs>>

\* getFPS()
GetFPS ==
  /\ lastOp' = MeterOp("getFPS", lastOp.arrived)
  /\ lastRet' = IF meter.emaFps = Null THEN Zero
                ELSE [kind |-> "rounded", of |-> meter.emaFps]
  /\ UNCHANGED <<meter, hasDocument, pool, seedNum, noiseConfig, chunks,
                 collisionMap, generationQueue, generationId, jobs, reconfigs>>

\* getInstantFPS()
GetInstantFPS ==
  /\ lastOp' = MeterOp("getInstantFPS", lastOp.arrived)
  /\ lastRet' = IF meter.deltas = <<>> THEN Zero
                ELSE [kind |-> "rounded", of |-> InstantFps(meter.deltas)]
  /\ UNCHANGED <<meter, hasDocument, pool, seedNum, noiseConfig, chunks,
                 collisionMap, generationQueue, generationId, jobs, reconfigs>>

\* reset()
Reset ==
  /\ meter' = [meter EXCEPT !.deltas = <<>>, !.emaFps = Null, !.frames = 0]
  /\ lastOp' = MeterOp("reset", <<>>)
  /\ lastRet' = Null
  /\ UNCHANGED <<hasDocument, pool, seedNum, noiseConfig, chunks, collisionMap,
                 generationQueue, generationId, jobs, reconfigs>>

PerfInit ==
  /\ meter \in {NewMeter(w) : w \in 0 .. MaxWindow}
  /\ hasDocument = TRUE
  /\ pool = TRUE
  /\ seedNum = 0
  /\ noiseConfig = [octaves |-> DefaultOctaves]
  /\ chunks = EmptyMap
  /\ collisionMap = EmptyMap
  /\ generationQueue = EmptyMap
  /\ generationId = 0
  /\ jobs = EmptyMap
  /\ reconfigs = 0
  /\ lastOp = MeterOp("construct", <<>>)
  /\ lastRet = Null

PerfNext ==
  \/ \E arg \in FrameArgs, now \in 0 .. MaxNow : RecordFrame(arg, now)
  \/ GetFPS
  \/ GetInstantFPS
  \/ Reset

PerfSpec == PerfInit /\ [][PerfNext]_vars

\* The task runner answers every job it was given.
FairSpec == Spec /\ \A j \in JobIds : WF_vars(JobSucceed(j) \/ JobFail(j))

\* ---------------------------------------------------------------- claims
\* The key's chunk-table entry holds the output of a synthesis.
IsComplete(k) == k \in DOMAIN chunks /\ HasTerrain(chunks[k])

\* C1: while the generation queue holds an entry for a key, a generateAsync
\* call for that key enqueues no job and is handed the promise of that entry;
\* and when a job succeeds, the call that started it and every caller that
\* joined its promise get one and the same chunk, the one now stored for the
\* key, carrying the terrain the job computed.
C1_Step ==
  /\ \A k \in Keys :
       (k \in DOMAIN generationQueue /\ lastOp'.op = "generateAsync"
          /\ lastOp'.key = k)
       => /\ DOMAIN jobs' = DOMAIN jobs
          /\ \A j \in DOMAIN jobs : jobs'[j].key = jobs[j].key
          /\ generationQueue' = generationQueue
          /\ lastRet' = [kind |-> "promise", job |-> generationQueue[k]]
  /\ \A j \in DOMAIN jobs :
       (lastOp'.op = "jobSucceed" /\ j \notin DOMAIN jobs')
       => LET k == jobs[j].key
          IN /\ k \in DOMAIN chunks'
             /\ chunks'[k].tiles = GenerateChunkData(jobs[j].seed, jobs[j].cfg, k)
             /\ lastRet'.joiners = jobs[j].joiners
             /\ lastRet'.starterOut = Resolved(chunks'[k])
             /\ lastRet'.joinerOut = Resolved(chunks'[k])

C1_Dedup == [][C1_Step]_vars

\* A job with a joined caller has just succeeded.
C1_Witness ==
  /\ lastOp.op = "jobSucceed"
  /\ lastRet.joiners >= 1
  /\ lastRet.joinerOut.st = "resolved"

\* C2: when a job fails or times out, the call that started it and every
\* caller that joined its promise resolve with a chunk; none is rejected.
C2_NoCallerFails ==
  lastOp.op = "jobFail" =>
    /\ lastRet.starterOut.st = "resolved"
    /\ lastRet.joiners > 0 => lastRet.joinerOut.st = "resolved"

\* C3: with a task runner that answers every job, a key whose entry is still
\* a placeholder eventually holds a chunk with synthesized terrain, unless
\* the key leaves the chunk table.
C3_EventuallyComplete ==
  \A k \in Keys :
    (pool /\ k \in DOMAIN chunks /\ ~HasTerrain(chunks[k]))
      ~> (k \notin DOMAIN chunks \/ HasTerrain(chunks[k]))

\* C4: where a task runner exists, getChunk on a key without a complete entry
\* returns a placeholder with the default grid and no canvas, leaves that
\* placeholder in the chunk table, and runs no synthesis before it returns.
C4_Step ==
  \A k \in Keys :
    (pool /\ ~IsComplete(k) /\ lastOp'.op = "getChunk" /\ lastOp'.key = k)
    => /\ lastRet'.tiles = DefaultGrid
       /\ lastRet'.canvas = Null
       /\ k \in DOMAIN chunks' /\ chunks'[k] = lastRet'
       /\ ~lastOp'.synth

C4_PlaceholderReturned == [][C4_Step]_vars

\* C5: on a key whose entry is complete, getChunk returns that entry and
\* generateAsync resolves with it, and neither changes the chunk table, runs
\* a synthesis or enqueues a job.
C5_Step ==
  \A k \in Keys :
    (IsComplete(k) /\ lastOp'.op \in {"getChunk", "generateAsync"}
       /\ lastOp'.key = k)
    => /\ chunks' = chunks
       /\ jobs' = jobs
       /\ ~lastOp'.synth /\ ~lastOp'.dispatched
       /\ lastOp'.op = "getChunk" => lastRet' = chunks[k]
       /\ lastOp'.op = "generateAsync" =>
            lastRet' = [kind |-> "resolved", chunk |-> chunks[k]]

C5_ShortCircuit == [][C5_Step]_vars

\* C6: every terrain held in the chunk table was produced under the current
\* seed and the current noise configuration.
C6_NoStaleTerrain ==
  \A k \in DOMAIN chunks :
    HasTerrain(chunks[k]) =>
      /\ chunks[k].tiles.seed = seedNum
      /\ chunks[k].tiles.cfg = noiseConfig

\* C7: right after setSeed or setNoiseConfig the chunk table and the
\* generation queue are both empty.
C7_ClearedAfterReconfig ==
  lastOp.op \in {"setSeed", "setNoiseConfig"} =>
    chunks = EmptyMap /\ generationQueue = EmptyMap

\* setSeed or setNoiseConfig has just run on tables that both held entries.
C7_Witness ==
  /\ lastOp.op \in {"setSeed", "setNoiseConfig"}
  /\ lastOp.hadChunks /\ lastOp.hadQueue

\* C8: the task runner never has more than one unanswered job for a key.
C8_OneJobPerKey ==
  \A k \in Keys : Cardinality(OutstandingFor(k)) <= 1

\* C9: a key's state only moves forward along absent, placeholder,
\* generating, complete, or back to absent when the key is evicted or cleared.
KeyState(ch, q, k) ==
  IF k \in DOMAIN q THEN "generating"
  ELSE IF k \notin DOMAIN ch THEN "absent"
  ELSE IF HasTerrain(ch[k]) THEN "complete"
  ELSE "placeholder"

Rank(st) ==
  CASE st = "absent" -> 0
    [] st = "placeholder" -> 1
    [] st = "generating" -> 2
    [] st = "complete" -> 3

C9_Step ==
  \A k \in Keys :
    LET old == KeyState(chunks, generationQueue, k)
        new == KeyState(chunks', generationQueue', k)
    IN \/ Rank(old) <= Rank(new)
       \/ /\ new = "absent"
          /\ lastOp'.op \in {"clearChunk", "unloadFarChunks", "setSeed",
                             "setNoiseConfig"}

C9_Lifecycle == [][C9_Step]_vars

\* C10: while a key stays in the chunk table, the terrain its entry holds
\* does not change.
C10_Step ==
  \A k \in Keys :
    (IsComplete(k) /\ k \in DOMAIN chunks')
    => /\ chunks'[k].tiles = chunks[k].tiles
       /\ chunks'[k].biomeData = chunks[k].biomeData

C10_TerrainImmutable == [][C10_Step]_vars

\* C11: every key of the collision registry is a key of the chunk table:
\* whenever a chunk leaves the cache (unloadFarChunks, clearChunk, setSeed,
\* setNoiseConfig, dispose) its collision data leaves with it.
C11_CollisionKeysCached == DOMAIN collisionMap \subseteq DOMAIN chunks

\* Chebyshev distance between chunk key k and the centre c.
Chebyshev(k, c) ==
  IF Abs(k[1] - c[1]) >= Abs(k[2] - c[2])
    THEN Abs(k[1] - c[1])
    ELSE Abs(k[2] - c[2])

\* C12: right after unloadFarChunks(centerCx, centerCy, radius) no chunk
\* farther than radius (Chebyshev) from the centre is in the chunk table, every
\* chunk within radius is still there and unchanged, and no evicted key has a
\* collision registry entry.
C12_Step ==
  lastOp'.op = "unloadFarChunks" =>
    LET c == lastOp'.key
        r == lastOp'.radius
    IN /\ \A k \in DOMAIN chunks' : Chebyshev(k, c) <= r
       /\ \A k \in DOMAIN chunks :
            Chebyshev(k, c) <= r => k \in DOMAIN chunks' /\ chunks'[k] = chunks[k]
       /\ \A k \in (DOMAIN chunks) \ (DOMAIN chunks') :
            k \notin DOMAIN collisionMap'

C12_UnloadEvictsFar == [][C12_Step]_vars

\* An unload that evicted a chunk with collision data and kept another.
C12_Witness ==
  /\ lastOp.op = "unloadFarChunks"
  /\ lastOp.removed # {}
  /\ chunks # EmptyMap
  /\ \E k \in DOMAIN chunks : k \in DOMAIN collisionMap

\* C13: clearChunk(cx, cy) removes the key from the chunk table, the in-flight
\* table and the collision registry, leaves the entries of every other key as
\* they were, and returns true whether or not the key was present.
C13_Step ==
  lastOp'.op = "clearChunk" =>
    LET k == lastOp'.key
    IN /\ k \notin DOMAIN chunks'
       /\ k \notin DOMAIN generationQueue'
       /\ k \notin DOMAIN collisionMap'
       /\ chunks' = MapDelete(chunks, k)
       /\ generationQueue' = MapDelete(generationQueue, k)
       /\ collisionMap' = MapDelete(collisionMap, k)
       /\ lastRet' = [kind |-> "bool", value |-> TRUE]

C13_ClearChunkTargeted == [][C13_Step]_vars

\* A clearChunk on a key that all three maps held, with another key left
\* behind in the chunk table and the collision registry.
C13_Witness ==
  /\ lastOp.op = "clearChunk"
  /\ lastOp.hadChunk /\ lastOp.hadQueue /\ lastOp.hadCollision
  /\ \E k \in DOMAIN chunks : k \in DOMAIN collisionMap

\* C14: an in-flight entry is removed when its generation job completes or
\* fails and, apart from the operations that clear the table (clearChunk,
\* setSeed, setNoiseConfig, dispose), by nothing but the answer of the job it
\* points to; when no dispatched job is unanswered the in-flight table is empty.
C14_Step ==
  /\ lastOp'.op \in {"jobSucceed", "jobFail"} =>
       lastOp'.key \notin DOMAIN generationQueue'
  /\ \A k \in DOMAIN generationQueue :
       (k \notin DOMAIN generationQueue' \/ generationQueue'[k] # generationQueue[k]) =>
         \/ lastOp'.op \in {"clearChunk", "setSeed", "setNoiseConfig", "dispose"}
         \/ /\ lastOp'.op \in {"jobSucceed", "jobFail"}
            /\ lastRet'.job = generationQueue[k]

C14_QueueLifecycle ==
  /\ [][C14_Step]_vars
  /\ [](jobs = EmptyMap => generationQueue = EmptyMap)

\* C15: when a job fails or times out, the entry stored for its chunk is the
\* output of a synchronous synthesis under the manager's current seed and
\* configuration, its collision data is decorated from that output, and no
\* other key's chunk or collision data is written.
C15_Step ==
  lastOp'.op = "jobFail" =>
    LET k == lastOp'.key
        data == GenerateChunkData(seedNum, noiseConfig, k)
    IN /\ k \in DOMAIN chunks'
       /\ chunks'[k].tiles = data
       /\ chunks'[k].biomeData = data
       /\ hasDocument => /\ k \in DOMAIN collisionMap'
                         /\ collisionMap'[k] = DecorateChunk(k, data)
       /\ ~hasDocument => collisionMap' = collisionMap
       /\ \A o \in Keys \ {k} :
            /\ o \in DOMAIN chunks' <=> o \in DOMAIN chunks
            /\ o \in DOMAIN chunks => chunks'[o] = chunks[o]
            /\ o \in DOMAIN collisionMap' <=> o \in DOMAIN collisionMap
            /\ o \in DOMAIN collisionMap => collisionMap'[o] = collisionMap[o]

C15_FallbackOutputStored == [][C15_Step]_vars

\* A job dispatched under one seed or configuration failed under another.
C15_Witness ==
  /\ lastOp.op = "jobFail"
  /\ lastRet.seed # seedNum \/ lastRet.cfg # noiseConfig

\* C16: getChunksInRect(rect) returns exactly one getChunk result for every
\* chunk (cx, cy) with floor(minX / (chunkSize * tileSize)) <= cx <=
\* floor(maxX / (chunkSize * tileSize)) and the same for cy, chunks the
\* rectangle only partly overlaps and chunks at negative coordinates included,
\* and none for any other chunk.  floor(a / t) <= c is written a < (c + 1) * t
\* and c <= floor(a / t) is written c * t <= a.
C16_RectChunks ==
  lastOp.op = "getChunksInRect" =>
    LET rect == lastOp.rect
        t == ChunkSize * TileSize
        list == lastRet.list
        Covered(cx, cy) ==
          /\ rect.minX < (cx + 1) * t /\ cx * t <= rect.maxX
          /\ rect.minY < (cy + 1) * t /\ cy * t <= rect.maxY
    IN /\ \A cx \in -(MaxWorld + 1) .. MaxWorld, cy \in -(MaxWorld + 1) .. MaxWorld :
            Covered(cx, cy) =>
              \E i \in 1 .. Len(list) : list[i].cx = cx /\ list[i].cy = cy
       /\ \A i \in 1 .. Len(list) :
            /\ Covered(list[i].cx, list[i].cy)
            /\ \A j \in 1 .. Len(list) :
                 (list[j].cx = list[i].cx /\ list[j].cy = list[i].cy) => j = i

\* A rectangle from negative to positive coordinates whose corners lie strictly
\* inside chunks, answered with several chunks.
C16_Witness ==
  /\ lastOp.op = "getChunksInRect"
  /\ lastOp.rect.minX < 0 /\ lastOp.rect.minX % (ChunkSize * TileSize) # 0
  /\ lastOp.rect.maxY > 0 /\ lastOp.rect.maxY % (ChunkSize * TileSize) # 0
  /\ Len(lastRet.list) >= 4

\* The chunk key and the row-major cell index of world point (x, y).
ChunkOf(x, y) ==
  Key(FloorDiv(FloorDiv(x, TileSize), ChunkSize),
      FloorDiv(FloorDiv(y, TileSize), ChunkSize))

CellOf(x, y) ==
  LET tx == FloorDiv(x, TileSize)
      ty == FloorDiv(y, TileSize)
  IN (ty - ChunkOf(x, y)[2] * ChunkSize) * ChunkSize
     + (tx - ChunkOf(x, y)[1] * ChunkSize)

\* C17: for a point inside a complete chunk (tile data stored and rendered),
\* getTileAtWorld returns the tile type stored at row-major index
\* localY * chunkSize + localX, with its exact ordinal, for every type 0 .. 11.
C17_Step ==
  lastOp'.op = "getTileAtWorld" =>
    LET k == ChunkOf(lastOp'.x, lastOp'.y)
    IN (k \in DOMAIN chunks /\ HasTerrain(chunks[k]) /\ HasCanvas(chunks[k]))
       => lastRet'.value = chunks[k].tiles.cells[CellOf(lastOp'.x, lastOp'.y)]

C17_StoredTileReturned == [][C17_Step]_vars

\* C18: getTileAtWorld for a point whose chunk has not been generated returns
\* grass (4), leaves a chunk object for that key in the chunk table, and has
\* triggered its generation: the key is in flight or already holds terrain.
C18_Step ==
  lastOp'.op = "getTileAtWorld" =>
    LET k == ChunkOf(lastOp'.x, lastOp'.y)
    IN ~IsComplete(k)
       => /\ lastRet'.value = 4
          /\ k \in DOMAIN chunks'
          /\ k \in DOMAIN generationQueue' \/ HasTerrain(chunks'[k])

C18_UngeneratedIsGrass == [][C18_Step]_vars

\* The obstacles of the collision registry.
Registered ==
  {collisionMap[k][i] : <<k, i>> \in
     {<<k, i>> \in (DOMAIN collisionMap) \X (1 .. ChunkSize * ChunkSize) :
        i <= Len(collisionMap[k])}}

\* C19: whenever checkCollision(x, y, r, ignoreId) returns collided = true with
\* obstacle O, O is in the collision registry, O.id differs from ignoreId, and
\* the distance from O to (x, y) is less than r + O.collisionRadius.
C19_HitIsSound ==
  (lastOp.op = "checkCollision" /\ lastRet.collided) =>
    LET o == lastRet.obstacle
        dx == o.x - Half(lastOp.x)
        dy == o.y - Half(lastOp.y)
        reach == Half(lastOp.radius) + o.collisionRadius
    IN /\ o \in Registered
       /\ o.id # lastOp.ignoreId
       /\ reach > 0
       /\ dx * dx + dy * dy < reach * reach

\* A hit on an obstacle while another obstacle, also within reach, is the one
\* the caller asked to ignore.
C19_Witness ==
  /\ lastOp.op = "checkCollision"
  /\ lastRet.collided
  /\ \E o \in Registered :
       /\ o.id = lastOp.ignoreId
       /\ Collides_NoIgnore(o, lastOp.x, lastOp.y, lastOp.radius, NoId)

\* C20: a collision with an obstacle at distance d > 0 is reported with
\* penetration = minDistance - d > 0 and a unit-length direction vector that
\* points from the obstacle toward the query point.
C20_PushesAway ==
  (lastOp.op = "checkCollision" /\ lastRet.collided /\ lastRet.distanceSq > 0) =>
    LET o == lastRet.obstacle
        dir == lastRet.direction
    IN /\ lastRet.minDistance > 0
       /\ lastRet.distanceSq < lastRet.minDistance * lastRet.minDistance
       /\ dir.dx * dir.dx + dir.dy * dir.dy = dir.divisorSq
       /\ dir.dx * (Half(lastOp.x) - o.x) + dir.dy * (Half(lastOp.y) - o.y) > 0

\* C21: a collision reported for a query point that coincides with the
\* obstacle's centre (distance 0) carries no NaN: its direction components are
\* numbers.
C21_NoNaNDirection ==
  (lastOp.op = "checkCollision" /\ lastRet.collided) =>
    /\ lastRet.direction.x # NaN
    /\ lastRet.direction.y # NaN

\* The probe circle of the last checkCollision call reaches within 0.3 tile of
\* the centre of a blocking or water tile of a generated chunk (lengths in
\* tenths of a half pixel).
ProbeOverlapsTerrain ==
  \E k \in DOMAIN chunks, i \in 0 .. (ChunkSize * ChunkSize - 1) :
    /\ HasTerrain(chunks[k])
    /\ chunks[k].tiles.cells[i] \in BlockingTiles \cup WaterTiles
    /\ LET cx2 == Half(k[1] * ChunkSize * TileSize + (i % ChunkSize) * TileSize)
                  + TileSize
           cy2 == Half(k[2] * ChunkSize * TileSize + (i \div ChunkSize) * TileSize)
                  + TileSize
           dx == cx2 - Half(lastOp.x)
           dy == cy2 - Half(lastOp.y)
           reach == 5 * Half(lastOp.radius) + 3 * TileSize
       IN 25 * (dx * dx + dy * dy) < reach * reach

\* C22: checkCollision(x, y, r) reports collided = true when the probe circle
\* overlaps a blocking terrain tile or a water tile, whether or not a
\* registered obstacle is in range.
C22_TerrainLayerQueried ==
  (lastOp.op = "checkCollision" /\ lastOp.ignoreId = NoId /\ ProbeOverlapsTerrain)
    => lastRet.collided

\* C23: getNearbyObstacles(x, y, radius) returns exactly once, with its
\* distance, every obstacle of every collision registry entry whose distance
\* to (x, y) is below radius, and nothing else.
C23_NearbyComplete ==
  lastOp.op = "getNearbyObstacles" =>
    LET list == lastRet.list
        DistSq(o) == (o.x - Half(lastOp.x)) * (o.x - Half(lastOp.x))
                     + (o.y - Half(lastOp.y)) * (o.y - Half(lastOp.y))
        Within(o) == /\ lastOp.radius > 0
                     /\ DistSq(o) < Half(lastOp.radius) * Half(lastOp.radius)
    IN /\ \A o \in Registered :
            Cardinality({i \in 1 .. Len(list) : list[i].id = o.id})
              = IF Within(o) THEN 1 ELSE 0
       /\ \A i \in 1 .. Len(list) :
            \E o \in Registered :
              /\ list[i] = Annotated(o, lastOp.x, lastOp.y)
              /\ list[i].distanceSq = DistSq(o)

\* A scan that returned an obstacle registered outside the 3 x 3 chunk block
\* of the query point and left out another that is too far.
C23_Witness ==
  /\ lastOp.op = "getNearbyObstacles"
  /\ \E i \in 1 .. Len(lastRet.list) :
       Abs(lastRet.list[i].id[1][1]
           - FloorDiv(lastOp.x, ChunkSize * TileSize)) > 1
  /\ \E o \in Registered :
       \A i \in 1 .. Len(lastRet.list) : lastRet.list[i].id # o.id

\* The rules of the documented biome table, in order: the first whose
\* condition holds gives the base tile type.
BiomeRules(h, m, t, r) ==
  << <<h < 60, 0>>, <<h < 90, 1>>, <<h < 120, 2>>, <<h < 160, 3>>,
     <<h < 650 /\ m > 700, 5>>, <<h < 650 /\ m < 300, 6>>, <<h < 650, 4>>,
     <<h < 820 /\ r > 600, 7>>, <<h < 820 /\ t > 600, 6>>, <<h < 820, 4>>,
     <<h > 880, 8>>, <<TRUE, 7>> >>

FirstMatch(rules) ==
  rules[CHOOSE i \in 1 .. Len(rules) :
          rules[i][1] /\ \A j \in 1 .. (i - 1) : ~rules[j][1]][2]

\* No height cut-point of the table separates the heights lo <= hi.
SameBand(lo, hi) ==
  /\ \A c \in {60, 90, 120, 160, 650, 820} : ~(lo < c /\ c <= hi)
  /\ ~(lo <= 880 /\ 880 < hi)

\* C24: the base tile type is the one the first matching rule of the table
\* gives, and with moisture, temperature and ridge fixed every height of the
\* same band gets the same base type.
C24_BiomeTable ==
  lastOp.op = "classify" =>
    /\ lastRet.base = FirstMatch(BiomeRules(lastOp.height, lastOp.moisture,
                                            lastOp.temperature, lastOp.ridge))
    /\ \A h \in Heights :
         (IF h <= lastOp.height THEN SameBand(h, lastOp.height)
                                ELSE SameBand(lastOp.height, h))
         => BaseTile(h, lastOp.moisture, lastOp.temperature, lastOp.ridge)
            = lastRet.base

\* A tile whose height is exactly a cut-point, classified into the band that
\* starts there.
C24_Witness ==
  /\ lastOp.op = "classify"
  /\ lastOp.height = 650
  /\ lastOp.moisture > 700
  /\ lastOp.ridge > 600
  /\ lastRet.base = 7

\* C25: road, building and ruin are assigned only to tiles whose base
\* type is grass, forest or dirt at a height of the mid band; a tile whose base
\* type is water, beach, mountain or snow-mountain keeps it; and the type
\* written is in 0 .. 11.
C25_InfrastructureOnLand ==
  lastOp.op = "classify" =>
    /\ lastRet.value \in {9, 10, 11} =>
         /\ lastRet.base \in {4, 5, 6}
         /\ 160 <= lastOp.height /\ lastOp.height < 650
    /\ lastRet.base \in {0, 1, 2, 3, 7, 8} => lastRet.value = lastRet.base
    /\ lastRet.value \in 0 .. 11

\* A mountain, beach or water tile whose feature noise is in the building
\* range.
C25_Witness ==
  /\ lastOp.op = "classify"
  /\ lastOp.featureNoise > 750
  /\ lastRet.base \in {0, 1, 2, 3, 7, 8}

C27_NoDegenerateGeneration ==
  /\ \A j \in PendingJobs : jobs[j].cfg.octaves >= 1
  /\ \A k \in DOMAIN chunks :
       HasTerrain(chunks[k]) => chunks[k].tiles.cfg.octaves >= 1

\* The keys the last operation evicted.
JustEvicted ==
  IF lastOp.op = "clearChunk" THEN {lastOp.key}
  ELSE IF lastOp.op = "unloadFarChunks" THEN lastOp.removed
  ELSE {}

C28_Step ==
  \A k \in JustEvicted :
    (k \in DOMAIN chunks' \/ k \in DOMAIN collisionMap')
      => (lastOp'.op \in {"getChunk", "generateAsync"} /\ lastOp'.key = k)

\* C28: a key evicted by clearChunk or unloadFarChunks comes back into the
\* chunk table or the collision registry only by a getChunk or generateAsync
\* call for that key, not by the answer of a job that was in flight.
C28_EvictedStaysAbsent == [][C28_Step]_vars

C29_Step ==
  \A k \in Keys :
    (~pool /\ lastOp'.op = "generateAsync" /\ lastOp'.key = k)
    => /\ generationQueue' = generationQueue
       /\ jobs' = jobs
       /\ ~lastOp'.dispatched
       /\ lastRet'.kind = "resolved"
       /\ k \in DOMAIN chunks' /\ HasTerrain(chunks'[k])
       /\ lastRet'.chunk = chunks'[k]

\* C29: without a task runner a generateAsync call adds no in-flight entry
\* and dispatches no job, and when it returns the chunk table holds the
\* complete chunk for the key, which is what the call resolves with.
C29_NoPoolSynchronous == [][C29_Step]_vars

\* The chunk key at place n (1 .. 9) of the scan around the chunk of the last
\* query point: x-offset -1 .. 1 outermost, y-offset -1 .. 1 inside.
BlockKey(n) ==
  Key(FloorDiv(lastOp.x, ChunkSize * TileSize) - 1 + ((n - 1) \div 3),
      FloorDiv(lastOp.y, ChunkSize * TileSize) - 1 + ((n - 1) % 3))

\* The places <<n, i>> of the scan that hold an obstacle the last query
\* collides with: registered under the n-th key of the block, not the ignored
\* one, and at distance < radius + collisionRadius.
Qualifying ==
  {p \in (1 .. 9) \X (1 .. ChunkSize * ChunkSize) :
     /\ BlockKey(p[1]) \in DOMAIN collisionMap
     /\ p[2] <= Len(collisionMap[BlockKey(p[1])])
     /\ LET o == collisionMap[BlockKey(p[1])][p[2]]
            dx == o.x - Half(lastOp.x)
            dy == o.y - Half(lastOp.y)
            reach == Half(lastOp.radius) + o.collisionRadius
        IN /\ o.id # lastOp.ignoreId
           /\ dx * dx + dy * dy < reach * reach}

Before(p, q) == p[1] < q[1] \/ (p[1] = q[1] /\ p[2] < q[2])

Neighbourhood ==
  {<<FloorDiv(lastOp.x, TileSize) + ox, FloorDiv(lastOp.y, TileSize) + oy>> :
     ox \in {-1, 0, 1}, oy \in {-1, 0, 1}}

\* The chunk of tile t is generated and rendered.
TileKnown(t) ==
  LET k == Key(FloorDiv(t[1], ChunkSize), FloorDiv(t[2], ChunkSize))
  IN k \in DOMAIN chunks /\ HasTerrain(chunks[k]) /\ HasCanvas(chunks[k])

\* The type stored for tile t of a generated chunk.
StoredType(t) ==
  LET cx == FloorDiv(t[1], ChunkSize)
      cy == FloorDiv(t[2], ChunkSize)
  IN chunks[Key(cx, cy)].tiles.cells[
       (t[2] - cy * ChunkSize) * ChunkSize + (t[1] - cx * ChunkSize)]

\* The centre of tile t is closer to the last query point than
\* radius + tenths/10 of a tile.
WithinReach(t, tenths) ==
  LET dx == Half(t[1] * TileSize) + TileSize - Half(lastOp.x)
      dy == Half(t[2] * TileSize) + TileSize - Half(lastOp.y)
      reach == 10 * lastOp.radius + tenths * TileSize
  IN 25 * (dx * dx + dy * dy) < reach * reach

\* C31: a collision the terrain check reports is on a tile of type 5, 7, 8,
\* 10 or 11 within radius + 0.4 tile of its centre, or of type 0 or 1 within
\* radius + 0.3 tile, never on a tile of type 2, 3, 4, 6 or 9; and a generated
\* deep-ocean or ocean tile of the 3 x 3 neighbourhood within radius + 0.3
\* tile of the point makes the check report a collision.
C31_TerrainClasses ==
  lastOp.op = "checkTerrainCollision" =>
    /\ lastRet.collided =>
         /\ lastRet.obstacle.tileType \in {0, 1, 5, 7, 8, 10, 11}
         /\ \E t \in Neighbourhood :
              /\ Half(t[1] * TileSize) + TileSize = lastRet.obstacle.x
              /\ Half(t[2] * TileSize) + TileSize = lastRet.obstacle.y
              /\ WithinReach(t, IF lastRet.obstacle.tileType \in {0, 1}
                                  THEN 3 ELSE 4)
    /\ \A t \in Neighbourhood :
         (TileKnown(t) /\ StoredType(t) \in {0, 1} /\ WithinReach(t, 3))
           => lastRet.collided

\* C34: every value the chunk generator produces is in [0, 1): at least 0
\* and strictly below 1.
C34_RollBelowOne ==
  lastOp.op = "rng" => (0 <= lastRet.num /\ lastRet.num < lastRet.den)

\* The generator state after n calls.
RECURSIVE NthState(_, _)
NthState(state, n) == IF n = 0 THEN state ELSE Advance(NthState(state, n - 1))

\* The roll of tile idx of chunk k in a decoration pass: call idx + 1 of a
\* generator created from seed + cx * 131 + cy * 197.
RollOfTile(k, idx) ==
  Low31(NthState(ToInt32(seedNum + k[1] * 131 + k[2] * 197), idx + 1))

\* What the documented rule says about tile idx of chunk k: a tree is due.
TreeDue(k, idx) ==
  LET t == chunks[k].tiles.cells[idx]
      roll == RollOfTile(k, idx)
  IN \/ t = 5 /\ RollBelow(roll, 300)
     \/ t = 4 /\ RollBelow(roll, 50) /\ chunks[k].tiles.moisture[idx] > 500

\* The registry places <<key, position in the list>>.
Places ==
  {p \in (DOMAIN collisionMap) \X (1 .. ChunkSize * ChunkSize) :
     p[2] <= Len(collisionMap[p[1]])}

\* C32: the registry of a decorated chunk has an entry for a tile exactly
\* when the tile is forest with roll < 0.3 (pine below 0.1, birch below 0.2,
\* else oak) or grass with roll < 0.05 and moisture > 0.5; every entry is a
\* tree, and no two entries share an id, the id being (chunk key, tx, ty).
C32_TreesOnly ==
  /\ \A p \in Places :
       LET o == collisionMap[p[1]][p[2]]
       IN /\ o.type = "tree"
          /\ o.id[1] = p[1]
          /\ \A q \in Places : collisionMap[q[1]][q[2]].id = o.id => q = p
  /\ \A k \in DOMAIN collisionMap, idx \in 0 .. (ChunkSize * ChunkSize - 1) :
       LET id == <<k, idx % ChunkSize, idx \div ChunkSize>>
           here == {p \in Places : collisionMap[p[1]][p[2]].id = id}
           roll == RollOfTile(k, idx)
       IN /\ here # {} <=> TreeDue(k, idx)
          /\ \A p \in here :
               chunks[k].tiles.cells[idx] = 5 =>
                 collisionMap[p[1]][p[2]].treeType =
                   (IF RollBelow(roll, 100) THEN "pine"
                    ELSE IF RollBelow(roll, 200) THEN "birch" ELSE "oak")

\* A pass over a chunk that gets a tree and has a grass tile whose roll is
\* below 0.05 but whose moisture is not above 0.5.
C32_Witness ==
  /\ lastOp.op = "decorateChunk"
  /\ Len(collisionMap[lastOp.key]) > 0
  /\ \E idx \in 0 .. (ChunkSize * ChunkSize - 1) :
       /\ chunks[lastOp.key].tiles.cells[idx] = 4
       /\ RollBelow(RollOfTile(lastOp.key, idx), 50)
       /\ chunks[lastOp.key].tiles.moisture[idx] <= 500

\* The row-major index of the tile an entry stands on.
IndexOf(o) == o.id[3] * ChunkSize + o.id[2]

\* C33: the obstacle list of a chunk is the one a fresh decoration pass
\* derives from the numeric seed, the chunk coordinates and the chunk's tiles
\* and moisture, after any passes over any chunks: the entries are in
\* row-major order and each carries the roll of its tile, call idx + 1 of a
\* generator created from seed + cx * 131 + cy * 197.
C33_DecorationReproducible ==
  /\ \A k \in DOMAIN collisionMap :
       /\ collisionMap[k] = Decoration(seedNum, k, chunks[k].tiles.cells,
                                       chunks[k].tiles.moisture)
       /\ \A i \in 1 .. Len(collisionMap[k]) :
            /\ collisionMap[k][i].roll =
                 RollOfTile(k, IndexOf(collisionMap[k][i]))
            /\ \A j \in 1 .. (i - 1) :
                 IndexOf(collisionMap[k][j]) < IndexOf(collisionMap[k][i])
  /\ lastOp.op = "decorateChunk" => lastRet.list = collisionMap[lastOp.key]

\* A second pass, over a chunk where a tree stands right after a tile that is
\* neither forest nor grass, the other chunk holding a different list.
C33_Witness ==
  /\ lastOp.op = "decorateChunk"
  /\ lastOp.passes = MaxPasses
  /\ \E i \in 1 .. Len(collisionMap[lastOp.key]) :
       LET idx == IndexOf(collisionMap[lastOp.key][i])
       IN idx > 0 /\ chunks[lastOp.key].tiles.cells[idx - 1] \notin {4, 5}
  /\ \E k \in DOMAIN collisionMap :
       Len(collisionMap[k]) # Len(collisionMap[lastOp.key])

C35_Step ==
  /\ generationId' >= generationId
  /\ \A k \in DOMAIN chunks' :
       (k \notin DOMAIN chunks \/ chunks'[k] # chunks[k]) =>
         /\ chunks'[k].generationId >= generationId
         /\ chunks'[k].generationId < generationId'
         /\ \A k2 \in DOMAIN chunks :
              chunks'[k].generationId > chunks[k2].generationId
  /\ \A k1 \in DOMAIN chunks', k2 \in DOMAIN chunks' :
       k1 # k2 => chunks'[k1].generationId # chunks'[k2].generationId

\* C35: every chunk object put in the chunk table carries a sequence number
\* at or above the counter before the step, hence above that of every chunk
\* created earlier, and no two entries of the table share a number.
C35_SequenceIncreases == [][C35_Step]_vars

\* The table holds a placeholder created after a complete chunk.
C35_Witness ==
  \E k1 \in DOMAIN chunks, k2 \in DOMAIN chunks :
    /\ ~HasTerrain(chunks[k1]) /\ HasTerrain(chunks[k2])
    /\ chunks[k1].generationId > chunks[k2].generationId

C36_Step ==
  \A k \in DOMAIN chunks' :
    HasTerrain(chunks'[k]) =>
      /\ k \in DOMAIN collisionMap'
      /\ (k \notin DOMAIN chunks \/ chunks'[k] # chunks[k]) =>
           collisionMap'[k] = DecorateChunk(k, chunks'[k].tiles)

\* C36: whenever the chunk table holds a complete chunk for a key, the
\* collision registry has an entry for that key, and the step that stores a
\* complete chunk, from the task runner or from the fallback, writes the
\* entry derived from that chunk.
C36_RegistryWithChunk == [][C36_Step]_vars

\* C37: for every world coordinate, negative ones included, the chunk and
\* local tile getTileAtWorld derives satisfy 0 <= localX, localY < chunkSize
\* and cx * chunkSize + localX = floor(x / tileSize) (same for y), floor being
\* the integer t with t * tileSize <= x < (t + 1) * tileSize; so the
\* out-of-bounds branch is not taken.
C37_LocalTileInBounds ==
  lastOp.op = "getTileAtWorld" =>
    LET tx == lastOp.key[1] * ChunkSize + lastOp.localX
        ty == lastOp.key[2] * ChunkSize + lastOp.localY
    IN /\ 0 <= lastOp.localX /\ lastOp.localX < ChunkSize
       /\ 0 <= lastOp.localY /\ lastOp.localY < ChunkSize
       /\ tx * TileSize <= lastOp.x /\ lastOp.x < (tx + 1) * TileSize
       /\ ty * TileSize <= lastOp.y /\ lastOp.y < (ty + 1) * TileSize

\* A query one pixel left of and above the origin: the last tile of chunk
\* (-1, -1).
C37_Witness ==
  /\ lastOp.op = "getTileAtWorld"
  /\ lastOp.x = -1 /\ lastOp.y = -1
  /\ lastOp.key = Key(-1, -1)
  /\ lastOp.localX = ChunkSize - 1 /\ lastOp.localY = ChunkSize - 1

C38_Step ==
  lastOp'.op \in {"checkCollision", "getNearbyObstacles"} =>
    /\ chunks' = chunks
    /\ generationQueue' = generationQueue
    /\ collisionMap' = collisionMap
    /\ jobs' = jobs
    /\ generationId' = generationId

\* C38: a checkCollision or getNearbyObstacles call leaves the chunk table,
\* the in-flight table and the collision registry as they were, creates no
\* chunk object and dispatches no job.
C38_QueriesReadOnly == [][C38_Step]_vars

\* A checkCollision call for a point whose chunk was never generated, hitting
\* a tree of a neighbouring chunk.
C38_Witness ==
  /\ lastOp.op = "checkCollision"
  /\ lastRet.collided
  /\ Key(FloorDiv(lastOp.x, ChunkSize * TileSize),
         FloorDiv(lastOp.y, ChunkSize * TileSize)) \notin DOMAIN chunks


\* The last n elements of a sequence
LastOf(seq, n) == SubSeq(seq, Len(seq) - n + 1, Len(seq))

\* C39: after any sequence of recordFrame and reset calls the meter holds at
\* most sampleWindow deltas, they are the most recent ones stored since the
\* last reset, in arrival order, every one of them is greater than 0, and
\* getFPS and getInstantFPS return 0 when called after reset before another
\* frame is recorded.
C39_WindowKeepsRecent ==
  /\ Len(meter.deltas) <= meter.sampleWindow
  /\ meter.deltas =
       LastOf(lastOp.arrived,
              IF Len(lastOp.arrived) < meter.sampleWindow
                THEN Len(lastOp.arrived) ELSE meter.sampleWindow)
  /\ \A i \in 1 .. Len(meter.deltas) : meter.deltas[i] > 0
  /\ (lastOp.op \in {"getFPS", "getInstantFPS"} /\ lastOp.arrived = <<>>)
       => lastRet = Zero

\* A frame was recorded into a full window of two: the oldest delta, different
\* from the newest, was dropped.
C39_Witness ==
  /\ lastOp.op = "recordFrame"
  /\ meter.sampleWindow = 2
  /\ Len(lastOp.arrived) > 2
  /\ lastOp.arrived[1] # lastOp.arrived[Len(lastOp.arrived)]
  /\ meter.deltas = LastOf(lastOp.arrived, 2)

====
